---- MODULE Spec2Model ----
(***************************************************************************)
(* QuickCut-Backend: key-space and lifecycle management of media objects.  *)
(*                                                                         *)
(* Strings are sequences of one-character strings, so that the string      *)
(* functions of the program (split, lastIndexOf, includes, toLowerCase,    *)
(* regular-expression tests) are computed character by character.          *)
(***************************************************************************)
EXTENDS Integers, Sequences, FiniteSets, TLC

\* ------------------------------------------------------------------------
\* String primitives (JavaScript String.prototype)
\* ------------------------------------------------------------------------

LowerSeq ==
  <<"a","b","c","d","e","f","g","h","i","j","k","l","m",
    "n","o","p","q","r","s","t","u","v","w","x","y","z">>

UpperSeq ==
  <<"A","B","C","D","E","F","G","H","I","J","K","L","M",
    "N","O","P","Q","R","S","T","U","V","W","X","Y","Z">>

DigitSeq == <<"0","1","2","3","4","5","6","7","8","9">>

Range(f) == {f[i] : i \in DOMAIN f}

LowerChars == Range(LowerSeq)

UpperChars == Range(UpperSeq)

DigitChars == Range(DigitSeq)

AlnumChars == LowerChars \cup UpperChars \cup DigitChars

HexChars == DigitChars \cup {"a","b","c","d","e","f","A","B","C","D","E","F"}

\* control characters \x00-\x1F and \x7F that the alphabet of the model has
ControlChars == {"\t", "\n"}

\* characters matched by \s
SpaceChars == {" ", "\t", "\n"}

\* String.prototype.toLowerCase, one character
LowerOf(c) ==
  IF c \in UpperChars
    THEN LowerSeq[CHOOSE i \in DOMAIN UpperSeq : UpperSeq[i] = c]
    ELSE c

\* String.prototype.toLowerCase
ToLowerCase(s) == [i \in 1..Len(s) |-> LowerOf(s[i])]

\* String.prototype.includes
Includes(s, sub) ==
  \E i \in 1..(Len(s) - Len(sub) + 1) : SubSeq(s, i, i + Len(sub) - 1) = sub

\* String.prototype.startsWith
StartsWith(s, p) == Len(s) >= Len(p) /\ SubSeq(s, 1, Len(p)) = p

\* String.prototype.endsWith
EndsWith(s, p) == Len(s) >= Len(p) /\ SubSeq(s, Len(s) - Len(p) + 1, Len(s)) = p

\* String.prototype.lastIndexOf for one character, 1-based; 0 when absent
\* (JavaScript's index is this value minus one)
LastIndexOf(s, c) ==
  IF \E i \in 1..Len(s) : s[i] = c
    THEN CHOOSE i \in 1..Len(s) : s[i] = c /\ \A j \in (i+1)..Len(s) : s[j] # c
    ELSE 0

\* first index of character c, 1-based; 0 when absent
IndexOf(s, c) ==
  IF \E i \in 1..Len(s) : s[i] = c
    THEN CHOOSE i \in 1..Len(s) : s[i] = c /\ \A j \in 1..(i-1) : s[j] # c
    ELSE 0

\* String.prototype.split on a one-character separator
RECURSIVE Split(_, _)
Split(s, c) ==
  LET i == IndexOf(s, c)
  IN  IF i = 0 THEN <<s>>
      ELSE <<SubSeq(s, 1, i - 1)>> \o Split(SubSeq(s, i + 1, Len(s)), c)

\* Array.prototype.join on a one-character separator
RECURSIVE Join(_, _)
Join(parts, c) ==
  IF Len(parts) = 0 THEN <<>>
  ELSE IF Len(parts) = 1 THEN parts[1]
  ELSE parts[1] \o <<c>> \o Join(Tail(parts), c)

\* String.prototype.replace(/[set]/g, '') : drop every character of a set
RemoveChars(s, set) == SelectSeq(s, LAMBDA c : c \notin set)

\* String.prototype.replace(/[^set]/g, '') : keep only the characters of a set
KeepChars(s, set) == RemoveChars(s, Range(s) \ set)

\* String.prototype.replace(/\s+/g, r) : every run of whitespace becomes r
RECURSIVE ReplaceSpaceRuns(_, _)
ReplaceSpaceRuns(s, r) ==
  IF Len(s) = 0 THEN <<>>
  ELSE IF s[1] \in SpaceChars
    THEN IF Len(s) > 1 /\ s[2] \in SpaceChars
           THEN ReplaceSpaceRuns(Tail(s), r)
           ELSE r \o ReplaceSpaceRuns(Tail(s), r)
  ELSE <<s[1]>> \o ReplaceSpaceRuns(Tail(s), r)

\* String.prototype.trim
RECURSIVE TrimStart(_)
TrimStart(s) ==
  IF Len(s) > 0 /\ s[1] \in SpaceChars THEN TrimStart(Tail(s)) ELSE s

RECURSIVE TrimEnd(_)
TrimEnd(s) ==
  IF Len(s) > 0 /\ s[Len(s)] \in SpaceChars
    THEN TrimEnd(SubSeq(s, 1, Len(s) - 1)) ELSE s

Trim(s) == TrimEnd(TrimStart(s))

\* String.prototype.replace(/<[^>]*>/g, '') : leftmost, non-overlapping
RECURSIVE RemoveHtmlTags(_)
RemoveHtmlTags(s) ==
  IF Len(s) = 0 THEN <<>>
  ELSE IF s[1] = "<" /\ IndexOf(s, ">") > 0
    THEN RemoveHtmlTags(SubSeq(s, IndexOf(s, ">") + 1, Len(s)))
  ELSE <<s[1]>> \o RemoveHtmlTags(Tail(s))

AllIn(s, set) == \A i \in 1..Len(s) : s[i] \in set

\* ------------------------------------------------------------------------
\* utils/sanitize.ts
\* ------------------------------------------------------------------------

DANGEROUS_EXTENSIONS ==
  { <<"e","x","e">>,
    <<"b","a","t">>,
    <<"c","m","d">>,
    <<"c","o","m">>,
    <<"p","i","f">>,
    <<"s","c","r">>,
    <<"v","b","s">>,
    <<"j","s">>,
    <<"j","s","e">>,
    <<"w","s","f">>,
    <<"w","s","h">>,
    <<"m","s","i">>,
    <<"m","s","p">>,
    <<"h","t","a">>,
    <<"c","p","l">>,
    <<"j","a","r">>,
    <<"a","p","p">>,
    <<"d","e","b">>,
    <<"r","p","m">>,
    <<"s","h">>,
    <<"b","a","s","h">>,
    <<"p","s","1">>,
    <<"h","t","m","l">>,
    <<"h","t","m">>,
    <<"p","h","p">>,
    <<"a","s","p">>,
    <<"a","s","p","x">>,
    <<"j","s","p">> }

PATH_TRAVERSAL_PATTERNS ==
  << <<".",".","/">>,
     <<".",".","\\">>,
     <<".",".","%","2","F">>,
     <<".",".","%","2","f">>,
     <<".",".","%","5","C">>,
     <<".",".","%","5","c">>,
     <<"%","2","e","%","2","e","/">>,
     <<"%","2","e","%","2","e","\\">>,
     <<".",".","%","2","5","2","F">>,
     <<".",".","%","2","5","2","f">>,
     <<".",".","%","2","5","5","C">>,
     <<".",".","%","2","5","5","c">> >>

S_uploads == <<"u","p","l","o","a","d","s">>

S_thumbnail == <<"t","h","u","m","b","n","a","i","l">>

S_visual == <<"v","i","s","u","a","l">>

S_audio == <<"a","u","d","i","o">>

S_dotjpg == <<".","j","p","g">>

S_thumbnailDir == <<"/","t","h","u","m","b","n","a","i","l","/">>

S_audioSlash == <<"a","u","d","i","o","/">>

MaxFilenameLen == 255

MaxUserIdLen == 128

MaxFileKeyLen == 1024

\* the result of a function that returns a string or throws
Ok(v) == [ok |-> TRUE, value |-> v, error |-> ""]

Err(m) == [ok |-> FALSE, value |-> <<>>, error |-> m]

\* the characters between [ ] of FILENAME_PATTERN's second class
FilenameBodyChars == AlnumChars \cup {"_", "-", ".", " ", "/"}

\* FILENAME_PATTERN.test : /^[a-zA-Z0-9][a-zA-Z0-9_\-\.\ \/]+\.[a-zA-Z0-9]+$/
\* the extension class has no dot, so the dot of the pattern is the last dot
FILENAME_PATTERN(s) ==
  LET d == LastIndexOf(s, ".")
  IN  /\ d >= 3
      /\ d < Len(s)
      /\ s[1] \in AlnumChars
      /\ AllIn(SubSeq(s, 2, d - 1), FilenameBodyChars)
      /\ AllIn(SubSeq(s, d + 1, Len(s)), AlnumChars)

UserIdChars == AlnumChars \cup {"_", "-"}

\* USER_ID_PATTERN.test : /^[a-zA-Z0-9_-]+$/
USER_ID_PATTERN(s) == Len(s) >= 1 /\ AllIn(s, UserIdChars)

IsDigits(s, n) == Len(s) = n /\ AllIn(s, DigitChars)

\* S3_KEY_PATTERN.test; no class of the pattern contains "/", so the pattern
\* matches segment by segment
S3_KEY_PATTERN(s) ==
  LET p == Split(s, "/")
      n == Len(p)
  IN  /\ n \in {8, 9}
      /\ p[1] = S_uploads
      /\ USER_ID_PATTERN(p[2])
      /\ p[3] \in {S_visual, S_audio}
      /\ IsDigits(p[4], 4)
      /\ IsDigits(p[5], 2)
      /\ IsDigits(p[6], 2)
      /\ Len(p[7]) >= 1 /\ AllIn(p[7], AlnumChars \cup {"-"})
      /\ n = 9 => p[8] = S_thumbnail
      /\ Len(p[n]) >= 1 /\ AllIn(p[n], AlnumChars \cup {"_", "-", ".", " "})

\* getFileExtension
getFileExtension(filename) ==
  LET parts == Split(filename, ".")
  IN  IF Len(parts) > 1 THEN ToLowerCase(parts[Len(parts)]) ELSE <<>>

\* sanitizeFilename: Ok(sanitized) or Err(reason)
sanitizeFilename(filename) ==
  LET t1 == Trim(filename)
      t2 == RemoveHtmlTags(t1)
      t3 == RemoveChars(t2, ControlChars)
      lowerFilename == ToLowerCase(t3)
      t4 == RemoveChars(t3, {"\\"})
      t5 == ReplaceSpaceRuns(t4, <<" ">>)
      sanitized == Trim(t5)
      extension == ToLowerCase(Split(sanitized, ".")[Len(Split(sanitized, "."))])
  IN  IF Len(filename) = 0 THEN Err("Filename must be a non-empty string")
      ELSE IF Len(t1) = 0 THEN Err("Filename cannot be empty")
      ELSE IF Len(t1) > MaxFilenameLen THEN Err("Filename exceeds maximum length")
      ELSE IF \E i \in DOMAIN PATH_TRAVERSAL_PATTERNS :
                Includes(lowerFilename, ToLowerCase(PATH_TRAVERSAL_PATTERNS[i]))
        THEN Err("Filename contains path traversal patterns")
      ELSE IF StartsWith(sanitized, <<".">>)
        THEN Err("Filename cannot start with a dot")
      ELSE IF ~Includes(sanitized, <<".">>) \/ EndsWith(sanitized, <<".">>)
        THEN Err("Filename must have a valid extension")
      ELSE IF ~FILENAME_PATTERN(sanitized)
        THEN Err("Filename contains invalid characters")
      ELSE IF extension \in DANGEROUS_EXTENSIONS
        THEN Err("File extension is not allowed for security reasons")
      ELSE Ok(sanitized)

\* sanitizeUserId: Ok(trimmed) or Err(reason)
sanitizeUserId(userId) ==
  LET sanitized == Trim(userId)
  IN  IF Len(userId) = 0 THEN Err("UserId must be a non-empty string")
      ELSE IF Len(sanitized) = 0 THEN Err("UserId cannot be empty")
      ELSE IF Len(sanitized) > MaxUserIdLen THEN Err("UserId exceeds maximum length")
      ELSE IF ~USER_ID_PATTERN(sanitized) THEN Err("UserId contains invalid characters")
      ELSE Ok(sanitized)

\* validateFileKey: TRUE when it returns, FALSE when it throws
validateFileKey(fileKey) ==
  LET trimmedKey == Trim(fileKey)
      lowerKey == ToLowerCase(trimmedKey)
  IN  /\ Len(fileKey) > 0
      /\ Len(trimmedKey) > 0
      /\ Len(trimmedKey) <= MaxFileKeyLen
      /\ ~Includes(trimmedKey, <<"%","0","0">>)
      /\ \A i \in DOMAIN PATH_TRAVERSAL_PATTERNS :
           ~Includes(lowerKey, PATH_TRAVERSAL_PATTERNS[i])
      /\ S3_KEY_PATTERN(trimmedKey)
      /\ StartsWith(trimmedKey, S_uploads \o <<"/">>)

\* the null that extractUserIdFromKey returns
NoUser == <<"<null>">>

\* the userId segment checked by extractUserIdFromKey, as written in the source
ExpectedPrefix == S_uploads

\* extractUserIdFromKey
extractUserIdFromKey(fileKey) ==
  LET parts == Split(fileKey, "/")
  IN  IF Len(parts) >= 2 /\ parts[1] = ExpectedPrefix THEN parts[2] ELSE NoUser

\* an authorization that only looks for a userId segment
authorizeFileAccessAnyOwner(fileKey, requestUserId) ==
  LET fileUserId == extractUserIdFromKey(fileKey)
  IN  ~(fileUserId = NoUser \/ Len(fileUserId) = 0)

\* authorizeFileAccess ("" is falsy: an empty userId segment is refused)
authorizeFileAccess(fileKey, requestUserId) ==
  LET fileUserId == extractUserIdFromKey(fileKey)
  IN  IF fileUserId = NoUser \/ Len(fileUserId) = 0
        THEN FALSE
        ELSE fileUserId = requestUserId

\* extractFilenameFromKey
extractFilenameFromKey(fileKey) ==
  LET parts == Split(fileKey, "/") IN parts[Len(parts)]

\* a check that lets every new extension through
validateExtensionMatchAny(oldFilename, newFilename) == TRUE

\* validateExtensionMatch: TRUE when it returns, FALSE when it throws
validateExtensionMatch(oldFilename, newFilename) ==
  getFileExtension(oldFilename) = getFileExtension(newFilename)

\* buildRenamedKey
buildRenamedKey(originalKey, newFilename) ==
  LET parts == Split(originalKey, "/")
  IN  Join([parts EXCEPT ![Len(parts)] = newFilename], "/")

\* ------------------------------------------------------------------------
\* State
\* ------------------------------------------------------------------------

VARIABLES
  s3Config,   \* configuration read once at process start (config/index.ts)
  store,      \* the bucket: a function from the keys that hold an object to the object
  sessions,   \* open multipart upload sessions of the bucket
  req,        \* the request in flight and the position of its handler
  calls,      \* the store calls issued by the request in flight, in order
  resp,       \* the response returned for the last finished request
  arg,        \* input of the function under check
  ret         \* its result

vars == <<s3Config, store, sessions, req, calls, resp, arg, ret>>

\* ------------------------------------------------------------------------
\* services/s3.service.ts : key derivation
\* ------------------------------------------------------------------------

\* String(n) for a natural number
RECURSIVE NumToStr(_)
NumToStr(n) ==
  IF n < 10 THEN <<DigitSeq[n + 1]>>
  ELSE NumToStr(n \div 10) \o <<DigitSeq[(n % 10) + 1]>>

\* String.prototype.padStart(2, '0')
PadStart2(s) == IF Len(s) >= 2 THEN s ELSE <<"0">> \o s

\* getMediaTypePrefix
getMediaTypePrefix(mimeType) ==
  LET normalizedMimeType == Trim(ToLowerCase(mimeType))
  IN  IF StartsWith(normalizedMimeType, S_audioSlash) THEN S_audio ELSE S_visual

\* S3Service.sanitizeFilename
S3SanitizeFilename(filename) ==
  ToLowerCase(KeepChars(ReplaceSpaceRuns(filename, <<"_">>),
                        AlnumChars \cup {".", "_", "/", "-"}))

\* generateS3Key; now is the UTC date read from the clock,
\* [year |-> getUTCFullYear(), month |-> getUTCMonth() + 1, day |-> getUTCDate()]
generateS3Key(userId, fileId, filename, mimeType, now) ==
  Join(<< s3Config.keyPrefix,
          userId,
          getMediaTypePrefix(mimeType),
          NumToStr(now.year),
          PadStart2(NumToStr(now.month)),
          PadStart2(NumToStr(now.day)),
          fileId,
          S3SanitizeFilename(filename) >>, "/")

\* S3Service.extractFilenameFromKey
S3ExtractFilenameFromKey(s3Key) ==
  LET parts == Split(s3Key, "/") IN parts[Len(parts)]

\* extractMediaTypeFromKey
extractMediaTypeFromKey(s3Key) ==
  LET parts == Split(s3Key, "/")
  IN  IF Len(parts) >= 3 /\ parts[3] = S_audio THEN S_audio ELSE S_visual

\* getThumbnailKey
getThumbnailKey(originalKey) ==
  LET lastSlash == LastIndexOf(originalKey, "/")
      directory == SubSeq(originalKey, 1, lastSlash - 1)
      filename == SubSeq(originalKey, lastSlash + 1, Len(originalKey))
      lastDot == LastIndexOf(filename, ".")
      nameWithoutExt == IF lastDot > 1 THEN SubSeq(filename, 1, lastDot - 1)
                                       ELSE filename
  IN  directory \o S_thumbnailDir \o nameWithoutExt \o S_dotjpg

\* isThumbnailPath
isThumbnailPath(key) == Includes(key, S_thumbnailDir)

\* a variant in which every media type has a thumbnail
requiresThumbnailAlways(mediaType) == TRUE

\* requiresThumbnail
requiresThumbnail(mediaType) == mediaType = S_visual

\* ------------------------------------------------------------------------
\* errors/AppError.ts and the error mapping of the handlers
\* ------------------------------------------------------------------------

M_alreadyExists == <<"F","i","l","e"," ","w","i","t","h"," ","t","h","i","s"," ","n","a","m","e"," ","a","l","r","e","a","d","y"," ","e","x","i","s","t","s">>

M_sourceNotFound == <<"S","o","u","r","c","e"," ","f","i","l","e"," ","n","o","t"," ","f","o","u","n","d">>

M_renameFailed == <<"F","a","i","l","e","d"," ","t","o"," ","r","e","n","a","m","e"," ","f","i","l","e"," ","i","n"," ","S","3">>

M_deleteFailed == <<"F","a","i","l","e","d"," ","t","o"," ","d","e","l","e","t","e"," ","f","i","l","e"," ","f","r","o","m"," ","S","3">>

M_completeFailed == <<"F","a","i","l","e","d"," ","t","o"," ","c","o","m","p","l","e","t","e"," ","m","u","l","t","i","p","a","r","t"," ","u","p","l","o","a","d">>

M_renameValidation == <<"R","e","n","a","m","e"," ","m","e","d","i","a"," ","v","a","l","i","d","a","t","i","o","n"," ","f","a","i","l","e","d">>

M_deleteValidation == <<"D","e","l","e","t","e"," ","m","e","d","i","a"," ","v","a","l","i","d","a","t","i","o","n"," ","f","a","i","l","e","d">>

M_completeValidation == <<"C","o","m","p","l","e","t","e"," ","u","p","l","o","a","d"," ","v","a","l","i","d","a","t","i","o","n"," ","f","a","i","l","e","d">>

M_forbidden == <<"I","n","s","u","f","f","i","c","i","e","n","t"," ","p","e","r","m","i","s","s","i","o","n","s">>

P_alreadyExists == <<"a","l","r","e","a","d","y"," ","e","x","i","s","t","s">>

P_notFound == <<"n","o","t"," ","f","o","u","n","d">>

\* class S3ServiceError
S3ServiceError(message) ==
  [class |-> "S3ServiceError", statusCode |-> 500,
   errorCode |-> "S3_SERVICE_ERROR", message |-> message]

\* class ValidationError
ValidationError(message) ==
  [class |-> "ValidationError", statusCode |-> 400,
   errorCode |-> "INVALID_REQUEST", message |-> message]

\* class AuthorizationError
AuthorizationError(message) ==
  [class |-> "AuthorizationError", statusCode |-> 403,
   errorCode |-> "FORBIDDEN", message |-> message]

\* an error mapping without the 'not found' case
RenameHandleErrorNoNotFound(error) ==
  IF error.class = "S3ServiceError"
    THEN IF Includes(error.message, P_alreadyExists)
           THEN [statusCode |-> 409, errorCode |-> "CONFLICT"]
         ELSE [statusCode |-> 500, errorCode |-> "INTERNAL_SERVER_ERROR"]
    ELSE [statusCode |-> error.statusCode, errorCode |-> error.errorCode]

\* handleError of the rename-media handler
RenameHandleError(error) ==
  IF error.class = "S3ServiceError"
    THEN IF Includes(error.message, P_alreadyExists)
           THEN [statusCode |-> 409, errorCode |-> "CONFLICT"]
         ELSE IF Includes(error.message, P_notFound)
           THEN [statusCode |-> 404, errorCode |-> "NOT_FOUND"]
         ELSE [statusCode |-> 500, errorCode |-> "INTERNAL_SERVER_ERROR"]
    ELSE [statusCode |-> error.statusCode, errorCode |-> error.errorCode]

\* handleError of the other handlers: every error here is an AppError
HandleError(error) ==
  [statusCode |-> error.statusCode, errorCode |-> error.errorCode]

\* ------------------------------------------------------------------------
\* The bucket (the S3 collaborator)
\* ------------------------------------------------------------------------

Put(s, k, o) == [x \in (DOMAIN s) \cup {k} |-> IF x = k THEN o ELSE s[x]]

Remove(s, k) == [x \in (DOMAIN s) \ {k} |-> s[x]]

Exists(s, k) == k \in DOMAIN s

\* one entry of the history of store calls
Call(name, key, src, ok) == [call |-> name, key |-> key, src |-> src, ok |-> ok]

\* HeadObject: found, a 404, or another failure
HeadOutcomes(k) ==
  IF Exists(store, k) THEN {"found", "error"} ELSE {"notfound", "error"}

\* CopyObject fails when the source holds no object, and may fail otherwise
CopyOutcomes(src) == IF Exists(store, src) THEN {TRUE, FALSE} ELSE {FALSE}

\* ------------------------------------------------------------------------
\* Users, keys and requests of the model
\* ------------------------------------------------------------------------

U1 == <<"u","1">>

U2 == <<"u","2">>

Users == {U1, U2}

K_ab == <<"u","p","l","o","a","d","s","/","u","1","/","v","i","s","u","a","l","/","2","0","2","5","/","0","1","/","0","1","/","g","1","/","a","b",".","j","p","g">>

K_abThumb == <<"u","p","l","o","a","d","s","/","u","1","/","v","i","s","u","a","l","/","2","0","2","5","/","0","1","/","0","1","/","g","1","/","t","h","u","m","b","n","a","i","l","/","a","b",".","j","p","g">>

K_cd == <<"u","p","l","o","a","d","s","/","u","1","/","v","i","s","u","a","l","/","2","0","2","5","/","0","1","/","0","1","/","g","1","/","c","d",".","j","p","g">>

K_so == <<"u","p","l","o","a","d","s","/","u","1","/","a","u","d","i","o","/","2","0","2","5","/","0","1","/","0","1","/","g","2","/","s","o",".","m","p","3">>

K_u2 == <<"u","p","l","o","a","d","s","/","u","2","/","v","i","s","u","a","l","/","2","0","2","5","/","0","1","/","0","1","/","g","3","/","a","b",".","j","p","g">>

F_cd == <<"c","d",".","j","p","g">>

F_thumbAb == <<"t","h","u","m","b","n","a","i","l","/","a","b",".","j","p","g">>

F_ab == <<"a","b",".","j","p","g">>

F_abUpper == <<"a","b",".","J","P","G">>

F_abPng == <<"a","b",".","p","n","g">>

F_xyMp3 == <<"x","y",".","m","p","3">>

\* a filename and a key as a client may write them, with a trailing space
F_cdSpace == F_cd \o <<" ">>

K_abSpace == K_ab \o <<" ">>

T_jpeg == <<"i","m","a","g","e","/","j","p","e","g">>

T_mpeg == <<"a","u","d","i","o","/","m","p","e","g">>

G1 == <<"g","1">>

G2 == <<"g","2">>

G3 == <<"g","3">>

Object(content, contentType, userId, fileId, originalFilename) ==
  [content |-> content, contentType |-> contentType,
   metadata |-> [userId |-> userId, fileId |-> fileId,
                 originalFilename |-> originalFilename, uploadedAt |-> "t0"]]

\* objects left by completed uploads: a visual primary of u1 (with or
\* without its thumbnail), an audio primary of u1, a visual primary of u2
BaseStore ==
  (K_ab :> Object("P1", T_jpeg, U1, G1, F_ab)) @@
  (K_so :> Object("A1", T_mpeg, U1, G2, <<"s","o",".","m","p","3">>)) @@
  (K_u2 :> Object("P2", T_jpeg, U2, G3, F_ab))

InitialStores ==
  { BaseStore,
    Put(BaseStore, K_abThumb, Object("T1", T_jpeg, U1, G1, F_thumbAb)) }

RenameFileKeys == {K_ab, K_cd, K_so, K_u2, K_abSpace}

NewFilenames == {F_cd, F_thumbAb, F_ab, F_abUpper, F_abPng, F_xyMp3, F_cdSpace}

DeleteBatches ==
  { <<K_ab>>, <<K_so>>, <<K_u2>>, <<K_ab, K_so>>, <<K_ab, K_u2>>,
    <<K_ab, K_ab>>, <<K_ab, K_abThumb>> }

\* number of requests served one after the other
MaxRequests == 1

Idle == [op |-> "idle", pc |-> "idle", at |-> "", n |-> 0]

NoResp == [statusCode |-> 0]

DefaultConfig == [keyPrefix |-> S_uploads]

Terminal == {"idle", "done", "failed", "rejected", "crashed"}

\* a handler may be entered when no request is in flight
CanStart == req.pc \in Terminal /\ req.n < MaxRequests

\* ------------------------------------------------------------------------
\* services/validation.service.ts : delete and rename requests
\* ------------------------------------------------------------------------

MaxDeleteKeys == 100

\* the errors array of validateRenameMediaRequest; it throws when not empty
RenameValidationErrors(request) ==
  (IF sanitizeUserId(request.userId).ok THEN <<>> ELSE <<"userId">>) \o
  (IF validateFileKey(request.fileKey) THEN <<>> ELSE <<"fileKey">>) \o
  (IF authorizeFileAccess(request.fileKey, request.userId)
     THEN <<>> ELSE <<"authorization">>) \o
  (IF sanitizeFilename(request.newFilename).ok THEN <<>> ELSE <<"newFilename">>) \o
  (IF validateExtensionMatch(extractFilenameFromKey(request.fileKey),
                             request.newFilename)
     THEN <<>> ELSE <<"extension">>)

\* the errors pushed by validateDeleteMediaRequest for the key at index i
DeleteKeyErrors(request, i) ==
  (IF validateFileKey(request.fileKeys[i]) THEN <<>> ELSE <<"fileKey">>) \o
  (IF authorizeFileAccess(request.fileKeys[i], request.userId)
     THEN <<>> ELSE <<"authorization">>)

RECURSIVE DeleteKeysErrors(_, _)
DeleteKeysErrors(request, i) ==
  IF i > Len(request.fileKeys) THEN <<>>
  ELSE DeleteKeyErrors(request, i) \o DeleteKeysErrors(request, i + 1)

\* the errors array of validateDeleteMediaRequest; it throws when not empty
DeleteValidationErrors(request) ==
  (IF sanitizeUserId(request.userId).ok THEN <<>> ELSE <<"userId">>) \o
  (IF Len(request.fileKeys) = 0 THEN <<"empty">> ELSE <<>>) \o
  (IF Len(request.fileKeys) > MaxDeleteKeys THEN <<"tooMany">> ELSE <<>>) \o
  DeleteKeysErrors(request, 1)

\* ------------------------------------------------------------------------
\* rename-media handler and S3Service.renameMediaFile
\* ------------------------------------------------------------------------

\* the catch block of renameMediaFile and the handler's handleError
RenameThrow(error) ==
  /\ req' = [req EXCEPT !.pc = "failed"]
  /\ resp' = RenameHandleError(error)

\* handler: authenticated userId, body {fileKey, newFilename}; validation,
\* sanitization, then renameMediaFile up to its first store call
\* (requested keeps the newFilename of the body as the client wrote it)
RenameHandler(authUserId, fileKey, newFilename) ==
  /\ CanStart
  /\ calls' = <<>>
  /\ LET request == [userId |-> authUserId, fileKey |-> fileKey,
                     newFilename |-> newFilename]
         sanitizedFilename == sanitizeFilename(newFilename).value
     IN  IF Len(RenameValidationErrors(request)) > 0
           THEN /\ req' = [op |-> "rename", pc |-> "rejected", at |-> "", n |-> req.n + 1,
                           userId |-> authUserId, oldKey |-> fileKey,
                           newFilename |-> newFilename, requested |-> newFilename,
                           store0 |-> store]
                /\ resp' = RenameHandleError(ValidationError(M_renameValidation))
           ELSE /\ req' = [op |-> "rename", pc |-> "checkNew", at |-> "", n |-> req.n + 1,
                           userId |-> authUserId, oldKey |-> fileKey,
                           newFilename |-> sanitizedFilename,
                           newKey |-> buildRenamedKey(fileKey, sanitizedFilename),
                           mediaType |-> extractMediaTypeFromKey(fileKey),
                           metadata |-> <<>>, requested |-> newFilename,
                           store0 |-> store]
                /\ resp' = NoResp
  /\ UNCHANGED <<s3Config, store, sessions, arg, ret>>

InRename(pc) == req.op = "rename" /\ req.pc = pc

\* a rename that does not look at newKey before it looks at the source
RenameCheckNewSkipped ==
  /\ InRename("checkNew")
  /\ req' = [req EXCEPT !.pc = "checkSource"]
  /\ UNCHANGED <<s3Config, store, sessions, calls, resp, arg, ret>>

\* checkFileExists(newKey)
RenameCheckNew ==
  /\ InRename("checkNew")
  /\ \E r \in HeadOutcomes(req.newKey) :
       /\ calls' = Append(calls, Call("HeadObject", req.newKey, <<>>, r # "error"))
       /\ IF r = "found" THEN RenameThrow(S3ServiceError(M_alreadyExists))
          ELSE IF r = "error" THEN RenameThrow(S3ServiceError(M_renameFailed))
          ELSE req' = [req EXCEPT !.pc = "checkSource"] /\ resp' = resp
  /\ UNCHANGED <<s3Config, store, sessions, arg, ret>>

\* checkFileExists(oldKey)
RenameCheckSource ==
  /\ InRename("checkSource")
  /\ \E r \in HeadOutcomes(req.oldKey) :
       /\ calls' = Append(calls, Call("HeadObject", req.oldKey, <<>>, r # "error"))
       /\ IF r = "notfound" THEN RenameThrow(S3ServiceError(M_sourceNotFound))
          ELSE IF r = "error" THEN RenameThrow(S3ServiceError(M_renameFailed))
          ELSE req' = [req EXCEPT !.pc = "getMetadata"] /\ resp' = resp
  /\ UNCHANGED <<s3Config, store, sessions, arg, ret>>

\* getObjectMetadata: the metadata of the object, or defaults when the read fails
getObjectMetadata(s3Key, r) ==
  IF r = "found"
    THEN [userId |-> store[s3Key].metadata.userId,
          fileId |-> store[s3Key].metadata.fileId,
          originalFilename |-> store[s3Key].metadata.originalFilename,
          fileType |-> store[s3Key].contentType,
          uploadedAt |-> store[s3Key].metadata.uploadedAt]
    ELSE [userId |-> <<>>, fileId |-> <<>>, originalFilename |-> <<>>,
          fileType |-> <<>>, uploadedAt |-> "now"]

\* getObjectMetadata(oldKey)
RenameGetMetadata ==
  /\ InRename("getMetadata")
  /\ \E r \in HeadOutcomes(req.oldKey) :
       /\ calls' = Append(calls, Call("HeadObject", req.oldKey, <<>>, r = "found"))
       /\ req' = [req EXCEPT !.pc = "copyOriginal",
                             !.metadata = getObjectMetadata(req.oldKey, r)]
  /\ UNCHANGED <<s3Config, store, sessions, resp, arg, ret>>

\* the position after the copy of the original
AfterCopyOriginal(mediaType) ==
  IF requiresThumbnail(mediaType) THEN "copyThumbnail" ELSE "deleteOriginal"

\* CopyObject oldKey -> newKey with MetadataDirective REPLACE
RenameCopyOriginal ==
  /\ InRename("copyOriginal")
  /\ \E ok \in CopyOutcomes(req.oldKey) :
       /\ calls' = Append(calls, Call("CopyObject", req.newKey, req.oldKey, ok))
       /\ IF ok
            THEN /\ store' = Put(store, req.newKey,
                       [content |-> store[req.oldKey].content,
                        contentType |-> req.metadata.fileType,
                        metadata |-> [userId |-> req.metadata.userId,
                                      fileId |-> req.metadata.fileId,
                                      originalFilename |-> req.newFilename,
                                      uploadedAt |-> req.metadata.uploadedAt]])
                 /\ req' = [req EXCEPT !.pc = AfterCopyOriginal(req.mediaType)]
                 /\ resp' = resp
            ELSE /\ store' = store
                 /\ RenameThrow(S3ServiceError(M_renameFailed))
  /\ UNCHANGED <<s3Config, sessions, arg, ret>>

\* a rename that goes on to the delete whatever the thumbnail copy returned
AfterCopyThumbnailUnchecked(ok) == "deleteOriginal"

\* the position after the thumbnail copy returned
AfterCopyThumbnail(ok) == IF ok THEN "deleteOriginal" ELSE "failed"

\* CopyObject getThumbnailKey(oldKey) -> getThumbnailKey(newKey)
RenameCopyThumbnail ==
  /\ InRename("copyThumbnail")
  /\ LET oldThumbnailKey == getThumbnailKey(req.oldKey)
         newThumbnailKey == getThumbnailKey(req.newKey)
     IN  \E ok \in CopyOutcomes(oldThumbnailKey) :
           /\ calls' = Append(calls,
                 Call("CopyObject", newThumbnailKey, oldThumbnailKey, ok))
           /\ store' = IF ok THEN Put(store, newThumbnailKey, store[oldThumbnailKey])
                             ELSE store
           /\ req' = [req EXCEPT !.pc = AfterCopyThumbnail(ok)]
           /\ resp' = IF AfterCopyThumbnail(ok) = "failed"
                        THEN RenameHandleError(S3ServiceError(M_renameFailed))
                        ELSE resp
  /\ UNCHANGED <<s3Config, sessions, arg, ret>>

\* deleteSingleFile(oldKey): DeleteObject oldKey
RenameDeleteOriginal ==
  /\ InRename("deleteOriginal")
  /\ \E ok \in BOOLEAN :
       /\ calls' = Append(calls, Call("DeleteObject", req.oldKey, <<>>, ok))
       /\ IF ok
            THEN /\ store' = Remove(store, req.oldKey)
                 /\ req' = [req EXCEPT !.pc =
                       IF requiresThumbnail(extractMediaTypeFromKey(req.oldKey))
                         THEN "deleteThumbnail" ELSE "presign"]
                 /\ resp' = resp
            ELSE /\ store' = store
                 /\ RenameThrow(S3ServiceError(M_deleteFailed))
  /\ UNCHANGED <<s3Config, sessions, arg, ret>>

\* deleteSingleFile(oldKey): DeleteObject getThumbnailKey(oldKey)
RenameDeleteThumbnail ==
  /\ InRename("deleteThumbnail")
  /\ \E ok \in BOOLEAN :
       /\ calls' = Append(calls,
             Call("DeleteObject", getThumbnailKey(req.oldKey), <<>>, ok))
       /\ IF ok
            THEN /\ store' = Remove(store, getThumbnailKey(req.oldKey))
                 /\ req' = [req EXCEPT !.pc = "presign"]
                 /\ resp' = resp
            ELSE /\ store' = store
                 /\ RenameThrow(S3ServiceError(M_deleteFailed))
  /\ UNCHANGED <<s3Config, sessions, arg, ret>>

\* the response data of a successful rename
RenameData(thumbnailUrl) ==
  [statusCode |-> 200, errorCode |-> "", oldKey |-> req.oldKey,
   newKey |-> req.newKey, filename |-> req.newFilename,
   thumbnailUrl |-> thumbnailUrl]

\* presigned URLs of the response; for visual media checkFileExists on the
\* new thumbnail key decides whether thumbnailUrl is null ("" here)
RenamePresign ==
  /\ InRename("presign")
  /\ IF requiresThumbnail(req.mediaType)
       THEN \E r \in HeadOutcomes(getThumbnailKey(req.newKey)) :
              /\ calls' = Append(calls,
                    Call("HeadObject", getThumbnailKey(req.newKey), <<>>, r # "error"))
              /\ IF r = "error"
                   THEN RenameThrow(S3ServiceError(M_renameFailed))
                   ELSE /\ req' = [req EXCEPT !.pc = "done"]
                        /\ resp' = RenameData(IF r = "found" THEN "url" ELSE "")
       ELSE /\ calls' = calls
            /\ req' = [req EXCEPT !.pc = "done"]
            /\ resp' = RenameData("")
  /\ UNCHANGED <<s3Config, store, sessions, arg, ret>>

\* ------------------------------------------------------------------------
\* delete-media handler, S3Service.deleteMediaFiles and deleteSingleFile
\* ------------------------------------------------------------------------

\* handler: authenticated userId, body {fileKeys}; validation, then
\* deleteMediaFiles starts one deleteSingleFile per key
DeleteHandler(authUserId, fileKeys) ==
  /\ CanStart
  /\ calls' = <<>>
  /\ LET request == [userId |-> authUserId, fileKeys |-> fileKeys]
     IN  IF Len(DeleteValidationErrors(request)) > 0
           THEN /\ req' = [op |-> "delete", pc |-> "rejected", at |-> "", n |-> req.n + 1,
                           userId |-> authUserId, fileKeys |-> fileKeys,
                           store0 |-> store]
                /\ resp' = HandleError(ValidationError(M_deleteValidation))
           ELSE /\ req' = [op |-> "delete", pc |-> "running", at |-> "", n |-> req.n + 1,
                           userId |-> authUserId, fileKeys |-> fileKeys,
                           sub |-> [i \in 1..Len(fileKeys) |-> "deleteOriginal"],
                           store0 |-> store]
                /\ resp' = NoResp
  /\ UNCHANGED <<s3Config, store, sessions, arg, ret>>

InDelete(i, pc) ==
  /\ req.op = "delete"
  /\ req.pc = "running"
  /\ i \in 1..Len(req.fileKeys)
  /\ req.sub[i] = pc

\* a deleteSingleFile that never deletes a thumbnail
AfterDeleteOriginalOnly(fileKey, ok) == IF ok THEN "fulfilled" ELSE "rejected"

\* the position of deleteSingleFile after the delete of the original returned
AfterDeleteOriginal(fileKey, ok) ==
  IF ~ok THEN "rejected"
  ELSE IF requiresThumbnail(extractMediaTypeFromKey(fileKey)) THEN "deleteThumbnail"
  ELSE "fulfilled"

\* deleteSingleFile(fileKeys[i]): DeleteObject fileKey
DeleteOriginal(i) ==
  /\ InDelete(i, "deleteOriginal")
  /\ \E ok \in BOOLEAN :
       /\ calls' = Append(calls, Call("DeleteObject", req.fileKeys[i], <<>>, ok))
       /\ store' = IF ok THEN Remove(store, req.fileKeys[i]) ELSE store
       /\ req' = [req EXCEPT !.sub[i] = AfterDeleteOriginal(req.fileKeys[i], ok)]
  /\ UNCHANGED <<s3Config, sessions, resp, arg, ret>>

\* a deleteSingleFile that swallows the failure of the thumbnail delete
AfterDeleteThumbnailSwallowed(ok) == "fulfilled"

\* deleteSingleFile returns after the thumbnail delete, or throws when it failed
AfterDeleteThumbnail(ok) == IF ok THEN "fulfilled" ELSE "rejected"

\* deleteSingleFile(fileKeys[i]): DeleteObject getThumbnailKey(fileKey)
DeleteThumbnail(i) ==
  /\ InDelete(i, "deleteThumbnail")
  /\ \E ok \in BOOLEAN :
       /\ calls' = Append(calls,
             Call("DeleteObject", getThumbnailKey(req.fileKeys[i]), <<>>, ok))
       /\ store' = IF ok THEN Remove(store, getThumbnailKey(req.fileKeys[i]))
                         ELSE store
       /\ req' = [req EXCEPT !.sub[i] = AfterDeleteThumbnail(ok)]
  /\ UNCHANGED <<s3Config, sessions, resp, arg, ret>>

\* a filter that stops at the first result of another status
RECURSIVE KeysWithUntilOther(_, _, _)
KeysWithUntilOther(fileKeys, sub, status) ==
  IF Len(fileKeys) = 0 \/ sub[1] # status THEN <<>>
  ELSE <<fileKeys[1]>> \o KeysWithUntilOther(Tail(fileKeys), Tail(sub), status)

\* Array.prototype.filter on the results, keeping the keys
RECURSIVE KeysWith(_, _, _)
KeysWith(fileKeys, sub, status) ==
  IF Len(fileKeys) = 0 THEN <<>>
  ELSE (IF sub[1] = status THEN <<fileKeys[1]>> ELSE <<>>) \o
       KeysWith(Tail(fileKeys), Tail(sub), status)

\* Promise.allSettled has settled: the handler builds the response
DeleteFinish ==
  /\ req.op = "delete"
  /\ req.pc = "running"
  /\ \A i \in 1..Len(req.fileKeys) : req.sub[i] \in {"fulfilled", "rejected"}
  /\ req' = [req EXCEPT !.pc = "done"]
  /\ LET deleted == KeysWith(req.fileKeys, req.sub, "fulfilled")
         failed == KeysWith(req.fileKeys, req.sub, "rejected")
     IN  resp' = [statusCode |-> 200, errorCode |-> "",
                  deleted |-> deleted, failed |-> failed,
                  totalRequested |-> Len(req.fileKeys),
                  successCount |-> Len(deleted),
                  failureCount |-> Len(failed)]
  /\ UNCHANGED <<s3Config, store, sessions, calls, arg, ret>>

\* ------------------------------------------------------------------------
\* The process stops between two store calls
\* ------------------------------------------------------------------------

Crash ==
  /\ req.pc \notin Terminal
  /\ req' = [req EXCEPT !.pc = "crashed", !.at = req.pc]
  /\ UNCHANGED <<s3Config, store, sessions, calls, resp, arg, ret>>

\* ------------------------------------------------------------------------
\* Specification of the media mutator: renames and deletes, one request
\* after the other, over the bucket
\* ------------------------------------------------------------------------

Init ==
  /\ s3Config = DefaultConfig
  /\ store \in InitialStores
  /\ sessions = {}
  /\ req = Idle
  /\ calls = <<>>
  /\ resp = NoResp
  /\ arg = <<>>
  /\ ret = <<>>

Next ==
  \/ \E u \in Users, k \in RenameFileKeys, f \in NewFilenames : RenameHandler(u, k, f)
  \/ RenameCheckNew
  \/ RenameCheckSource
  \/ RenameGetMetadata
  \/ RenameCopyOriginal
  \/ RenameCopyThumbnail
  \/ RenameDeleteOriginal
  \/ RenameDeleteThumbnail
  \/ RenamePresign
  \/ \E u \in Users, b \in DeleteBatches : DeleteHandler(u, b)
  \/ \E i \in 1..2 : DeleteOriginal(i)
  \/ \E i \in 1..2 : DeleteThumbnail(i)
  \/ DeleteFinish
  \/ Crash

Spec == Init /\ [][Next]_vars

\* ------------------------------------------------------------------------
\* Claims about rename and delete (specification Spec)
\* ------------------------------------------------------------------------

\* the rename in flight (or finished) passed validation and reached renameMediaFile
RenameAccepted == req.op = "rename" /\ req.pc # "rejected"

\* the store calls of a kind issued so far by the request
CallsOf(names) == {i \in 1..Len(calls) : calls[i].call \in names}

Mutations == {"CopyObject", "DeleteObject"}

\* the userId segment of a key: the second segment of the path
UserSegment(key) ==
  LET parts == Split(key, "/") IN IF Len(parts) >= 2 THEN parts[2] ELSE <<>>

\* the content of the primary at the start of the rename is held at key k
HoldsPrimary(k) ==
  Exists(store, k) /\ store[k].content = req.store0[req.oldKey].content

\* C1: during a rename of an existing primary key, in every reachable state an
\* object holding the primary's content exists at the old key or at the new
\* key; if the process stops after the copies and before the delete, both the
\* old and the new object exist.
C1_PrimaryNeverLost ==
  (RenameAccepted /\ Exists(req.store0, req.oldKey) /\ ~isThumbnailPath(req.oldKey))
    => /\ HoldsPrimary(req.oldKey) \/ HoldsPrimary(req.newKey)
       /\ (req.pc = "crashed" /\ req.at = "deleteOriginal")
            => (HoldsPrimary(req.oldKey) /\ HoldsPrimary(req.newKey))

\* C2: the delete of the old primary is issued only after the primary copy and,
\* for a visual key, the thumbnail copy have both returned success; if a copy
\* fails, no delete is issued on any key.
C2_DeleteOnlyAfterCopies ==
  RenameAccepted =>
    /\ \A j \in CallsOf({"DeleteObject"}) :
         /\ \E i \in 1..(j - 1) :
              /\ calls[i] = Call("CopyObject", req.newKey, req.oldKey, TRUE)
         /\ requiresThumbnail(req.mediaType) =>
              \E i \in 1..(j - 1) :
                calls[i] = Call("CopyObject", getThumbnailKey(req.newKey),
                                getThumbnailKey(req.oldKey), TRUE)
    /\ (\E i \in CallsOf({"CopyObject"}) : ~calls[i].ok)
         => CallsOf({"DeleteObject"}) = {}

\* C2 witness: a rename of a visual key has issued its delete after both copies
C2_Witness ==
  /\ RenameAccepted
  /\ requiresThumbnail(req.mediaType)
  /\ Cardinality(CallsOf({"CopyObject"})) = 2
  /\ CallsOf({"DeleteObject"}) # {}

\* C2 witness of the failure case: the thumbnail copy of a rename failed
C2_WitnessCopyFailed ==
  /\ RenameAccepted
  /\ req.pc = "failed"
  /\ \E i \in CallsOf({"CopyObject"}) : ~calls[i].ok /\ calls[i].src = getThumbnailKey(req.oldKey)

\* the keys a request supplies
RequestKeys ==
  IF req.op = "delete" THEN Range(req.fileKeys)
  ELSE IF req.op = "rename" THEN {req.oldKey}
  ELSE {}

\* C3: a delete or rename request with a key whose userId segment differs from
\* the authenticated userId is rejected, and no copyObject or deleteObject is
\* issued for any key of the request.
C3_ForeignKeyRejected ==
  (\E k \in RequestKeys : UserSegment(k) # req.userId)
    => /\ req.pc = "rejected"
       /\ resp.statusCode = 400
       /\ CallsOf(Mutations) = {}
       /\ store = req.store0

\* C3 witness: a rejected batch holding a key of the caller and a foreign key
C3_Witness ==
  /\ req.op = "delete"
  /\ req.pc = "rejected"
  /\ \E k \in RequestKeys : UserSegment(k) = req.userId
  /\ \E k \in RequestKeys : UserSegment(k) # req.userId

\* every existence probe of the request was answered by the store
ProbesAnswered == \A i \in CallsOf({"HeadObject"}) : calls[i].ok

RenameFinished == RenameAccepted /\ req.pc \in {"done", "failed"}

NothingMutated == CallsOf(Mutations) = {} /\ store = req.store0

C10_WitnessConflict ==
  /\ RenameFinished
  /\ Exists(req.store0, req.newKey)
  /\ ~Exists(req.store0, req.oldKey)
  /\ resp.statusCode = 409

\* ------------------------------------------------------------------------
\* Claims about the extension and the thumbnail of a rename, and about
\* deletes (specification Spec)
\* ------------------------------------------------------------------------

\* the final path segment of a key
LastSegment(key) ==
  SubSeq(key, LastIndexOf(key, "/") + 1, Len(key))

\* the extension of a filename: what follows its last dot, in lower case;
\* empty when the filename has no dot
ExtensionOf(name) ==
  LET d == LastIndexOf(name, ".")
  IN  IF d = 0 THEN <<>> ELSE ToLowerCase(SubSeq(name, d + 1, Len(name)))

\* the rename issued a copy to the new key: a filename is written
CopyIssued ==
  \E i \in CallsOf({"CopyObject"}) : calls[i].key = req.newKey

\* C12: a rename whose newFilename has another extension than the old filename
\* fails with a ValidationError before any store mutation; an accepted rename
\* has equal extensions, and the filename written (after sanitization) has that
\* extension too.
C12_ExtensionNeverChanges ==
  req.op = "rename" =>
    /\ ExtensionOf(req.requested) # ExtensionOf(LastSegment(req.oldKey))
         => /\ req.pc = "rejected"
            /\ resp.statusCode = 400
            /\ resp.errorCode = "INVALID_REQUEST"
            /\ NothingMutated
    /\ RenameAccepted
         => ExtensionOf(req.requested) = ExtensionOf(LastSegment(req.oldKey))
    /\ CopyIssued
         => ExtensionOf(LastSegment(req.newKey)) = ExtensionOf(LastSegment(req.oldKey))

\* C12 witness: a rename of the caller's own existing key is rejected for its
\* extension alone
C12_Witness ==
  /\ req.op = "rename"
  /\ req.pc = "rejected"
  /\ RenameValidationErrors([userId |-> req.userId, fileKey |-> req.oldKey,
                             newFilename |-> req.requested]) = <<"extension">>
  /\ Exists(req.store0, req.oldKey)

\* C12 witness of the accepted case: a rename that changed the letter case of
\* the extension has written its new key
C12_WitnessAccepted ==
  /\ RenameAccepted
  /\ CopyIssued
  /\ req.requested = F_abUpper
  /\ Exists(store, req.newKey)

\* the rename in flight returned its data: it succeeded
RenameSucceeded == req.op = "rename" /\ req.pc = "done"

\* the primary is visual and its thumbnail was there when the rename started
HadThumbnail ==
  /\ requiresThumbnail(req.mediaType)
  /\ Exists(req.store0, getThumbnailKey(req.oldKey))

\* C13: after a successful rename of a visual primary whose thumbnail existed
\* at the old thumbnail key, an object with the thumbnail's content exists at
\* the thumbnail key derived from newKey and thumbnailUrl is not null; also
\* when newFilename differs from the old one only in the case of its extension.
C13_ThumbnailFollowsRename ==
  (RenameSucceeded /\ HadThumbnail) =>
    /\ Exists(store, getThumbnailKey(req.newKey))
    /\ store[getThumbnailKey(req.newKey)].content
         = req.store0[getThumbnailKey(req.oldKey)].content
    /\ resp.thumbnailUrl # ""

\* the thumbnail key of a primary key as the spec describes it: the same
\* directory, thumbnail/ inserted, the extension replaced by .jpg
DerivedThumbnailKey(key) ==
  LET parts == Split(key, "/")
      name == parts[Len(parts)]
      dot == LastIndexOf(name, ".")
      stem == IF dot > 1 THEN SubSeq(name, 1, dot - 1) ELSE name
  IN  Join(SubSeq(parts, 1, Len(parts) - 1) \o <<S_thumbnail, stem \o S_dotjpg>>, "/")

\* the third path segment of a key is audio
IsAudioKey(key) ==
  LET parts == Split(key, "/") IN Len(parts) >= 3 /\ parts[3] = S_audio

\* the DeleteObject calls issued so far on key k
DeletesOf(k) == {i \in CallsOf({"DeleteObject"}) : calls[i].key = k}

\* the positions of the batch that hold key k
PositionsOf(k) == {i \in 1..Len(req.fileKeys) : req.fileKeys[i] = k}

\* key k is also the derived thumbnail key of a key of the batch, so a delete
\* of k may be the thumbnail delete of that other key
IsThumbnailOfBatch(k) ==
  \E p \in 1..Len(req.fileKeys) : DerivedThumbnailKey(req.fileKeys[p]) = k

\* deleteSingleFile has returned or thrown for every key of the batch
DeleteSettled ==
  /\ req.op = "delete"
  /\ req.pc = "done"

RECURSIVE Interleaved(_, _, _)
Interleaved(sub, deleted, failed) ==
  IF Len(sub) = 0 THEN <<>>
  ELSE IF sub[1] = "fulfilled"
    THEN (IF Len(deleted) > 0 THEN <<deleted[1]>> ELSE <<<<>>>>) \o
         Interleaved(Tail(sub), IF Len(deleted) > 0 THEN Tail(deleted) ELSE deleted, failed)
    ELSE (IF Len(failed) > 0 THEN <<failed[1]>> ELSE <<<<>>>>) \o
         Interleaved(Tail(sub), deleted, IF Len(failed) > 0 THEN Tail(failed) ELSE failed)

\* C15: in a batch delete every requested key is attempted whatever happened to
\* the other keys and is reported exactly once: deleted and failed together are
\* the requested keys position by position, and
\* successCount + failureCount = totalRequested = number of requested keys.
C15_EveryKeyAttemptedAndReported ==
  DeleteSettled =>
    /\ \A k \in Range(req.fileKeys) :
         Cardinality(DeletesOf(k)) >= Cardinality(PositionsOf(k))
    /\ Len(resp.deleted) + Len(resp.failed) = Len(req.fileKeys)
    /\ Interleaved(req.sub, resp.deleted, resp.failed) = req.fileKeys
    /\ resp.successCount = Len(resp.deleted)
    /\ resp.failureCount = Len(resp.failed)
    /\ resp.successCount + resp.failureCount = resp.totalRequested
    /\ resp.totalRequested = Len(req.fileKeys)
    /\ resp.statusCode = 200

\* C15 witness: a batch of two keys has settled with the first key failed and
\* the second deleted
C15_Witness ==
  /\ DeleteSettled
  /\ Len(req.fileKeys) = 2
  /\ resp.failed = <<req.fileKeys[1]>>
  /\ resp.deleted = <<req.fileKeys[2]>>

\* the primary delete of visual key k succeeded and every delete issued on
\* its thumbnail key failed
ThumbnailDeleteFailed(k) ==
  /\ ~IsAudioKey(k)
  /\ \E j \in DeletesOf(k) : calls[j].ok
  /\ DeletesOf(DerivedThumbnailKey(k)) # {}
  /\ \A i \in DeletesOf(DerivedThumbnailKey(k)) : ~calls[i].ok

\* C16: when the primary delete of a visual key succeeds and its thumbnail
\* delete fails, the primary stays deleted (nothing is written back) and the
\* key's result is a failure: a key listed in failed may be gone from the store.
C16_NoRollbackOfPrimary ==
  DeleteSettled =>
    \A k \in Range(req.fileKeys) :
      ThumbnailDeleteFailed(k) =>
        /\ ~Exists(store, k)
        /\ CallsOf({"CopyObject", "PutObject"}) = {}
        /\ k \in Range(resp.failed)
        /\ k \notin Range(resp.deleted)

\* C16 witness: a key that was in the store is listed in failed and is gone
C16_Witness ==
  /\ DeleteSettled
  /\ \E k \in Range(resp.failed) :
       /\ ThumbnailDeleteFailed(k)
       /\ Exists(req.store0, k)
       /\ ~Exists(store, k)

\* C27: a delete or rename request that supplies a key whose userId segment
\* differs from the authenticated userId is answered with the
\* AuthorizationError (403 FORBIDDEN), not with a validation error
C27_ForeignKeyForbidden ==
  (req.op \in {"delete", "rename"} /\
   \E k \in RequestKeys : UserSegment(k) # req.userId)
    => /\ resp.statusCode = 403
       /\ resp.errorCode = "FORBIDDEN"

\* ------------------------------------------------------------------------
\* Specification of key derivation: generateS3Key under the configured
\* prefix, and the ownership test applied to the key it produces
\* ------------------------------------------------------------------------

\* values of S3_KEY_PREFIX; config/index.ts defaults it to 'uploads'
KeyPrefixes == {S_uploads, <<"m","e","d","i","a">>, <<"u","p","l","o","a","d","s","/","p","r","o","d">>}

UploadFilenames == {F_ab, F_thumbAb, <<"M","y"," ","C","l","i","p",".","M","P","4">>}

\* UTC dates read from the clock
Dates == {[year |-> 2025, month |-> 1, day |-> 5],
          [year |-> 2025, month |-> 12, day |-> 31]}

InitKeys ==
  /\ s3Config \in {[keyPrefix |-> p] : p \in KeyPrefixes}
  /\ store = BaseStore
  /\ sessions = {}
  /\ req = Idle
  /\ calls = <<>>
  /\ resp = NoResp
  /\ arg = <<>>
  /\ ret = <<>>

\* createSingleMultipartUpload derives the key of one file of the request
GenerateKey(userId, fileId, filename, mimeType, now) ==
  /\ arg = <<>>
  /\ arg' = [userId |-> userId, fileId |-> fileId, filename |-> filename,
             mimeType |-> mimeType, now |-> now]
  /\ ret' = generateS3Key(userId, fileId, filename, mimeType, now)
  /\ UNCHANGED <<s3Config, store, sessions, req, calls, resp>>

NextKeys ==
  \E u \in Users, g \in {G1, G2}, f \in UploadFilenames,
     t \in {T_jpeg, T_mpeg}, d \in Dates : GenerateKey(u, g, f, t, d)

SpecKeys == InitKeys /\ [][NextKeys]_vars

\* C5: every key produced by generateS3Key for user u, whatever the
\* configured key prefix, is authorized for u and for no other user.
C5_GeneratedKeyAuthorizesOwnerOnly ==
  ret # <<>> =>
    /\ authorizeFileAccess(ret, arg.userId)
    /\ \A u2 \in Users \ {arg.userId} : ~authorizeFileAccess(ret, u2)

\* ------------------------------------------------------------------------
\* services/validation.service.ts : completion requests
\* ------------------------------------------------------------------------

\* /^[0-9a-f]{8}-[0-9a-f]{4}-4[0-9a-f]{3}-[89ab][0-9a-f]{3}-[0-9a-f]{12}$/i
uuidRegex(s) ==
  /\ Len(s) = 36
  /\ \A i \in {9, 14, 19, 24} : s[i] = "-"
  /\ s[15] = "4"
  /\ s[20] \in {"8", "9", "a", "b", "A", "B"}
  /\ \A i \in (1..36) \ {9, 14, 15, 19, 20, 24} : s[i] \in HexChars

\* errors.push(e) under a condition
ErrorIf(cond, e) == IF cond THEN {e} ELSE {}

\* largest part number validateParts allows
MaxPartNumber == 10000

\* [...parts].sort((a, b) => a.partNumber - b.partNumber), as part numbers;
\* a list already in ascending order is its own sorted copy
SortedPartNumbers(pn) ==
  IF \A i \in 1..(Len(pn) - 1) : pn[i] <= pn[i + 1] THEN pn
  ELSE [i \in 1..Len(pn) |->
          CHOOSE v \in Range(pn) :
            /\ Cardinality({j \in 1..Len(pn) : pn[j] < v}) < i
            /\ i <= Cardinality({j \in 1..Len(pn) : pn[j] <= v})]

\* a validateParts that forgets the check of the order given
validatePartsUnordered(parts) ==
  IF Len(parts) = 0 THEN {"empty"}
  ELSE
    LET n == Len(parts)
        pn == [i \in 1..n |-> parts[i].partNumber]
        checked == {i \in 1..n : pn[i] # 0 /\ parts[i].etag # <<>>}
        sortedParts == SortedPartNumbers(pn)
    IN  ErrorIf((1..n) \ checked # {}, "required") \cup
        ErrorIf({j \in checked : pn[j] < 1 \/ pn[j] > MaxPartNumber} # {}, "range") \cup
        ErrorIf(Cardinality({pn[k] : k \in checked}) < Cardinality(checked),
                "duplicate") \cup
        ErrorIf({j \in checked : Len(Trim(parts[j].etag)) = 0} # {}, "etagEmpty") \cup
        ErrorIf({j \in checked : Len(RemoveChars(parts[j].etag, {"\""})) < 32} # {},
                "etagInvalid") \cup
        ErrorIf({j \in 1..n : sortedParts[j] # j} # {}, "gaps")

\* validateParts: the kinds of error it pushes. A part without partNumber
\* (0 is falsy) or without etag is reported and skipped; the Set of part
\* numbers seen holds the numbers of the parts that were not skipped
validateParts(parts) ==
  IF Len(parts) = 0 THEN {"empty"}
  ELSE
    LET n == Len(parts)
        pn == [i \in 1..n |-> parts[i].partNumber]
        checked == {i \in 1..n : pn[i] # 0 /\ parts[i].etag # <<>>}
        sortedParts == SortedPartNumbers(pn)
    IN  ErrorIf((1..n) \ checked # {}, "required") \cup
        ErrorIf({j \in checked : pn[j] < 1 \/ pn[j] > MaxPartNumber} # {}, "range") \cup
        ErrorIf(Cardinality({pn[k] : k \in checked}) < Cardinality(checked),
                "duplicate") \cup
        ErrorIf({j \in checked : Len(Trim(parts[j].etag)) = 0} # {}, "etagEmpty") \cup
        ErrorIf({j \in checked : Len(RemoveChars(parts[j].etag, {"\""})) < 32} # {},
                "etagInvalid") \cup
        ErrorIf({j \in 1..n : pn[j] # sortedParts[j]} # {}, "order") \cup
        ErrorIf({j \in 1..n : sortedParts[j] # j} # {}, "gaps")

\* the errors array of validateCompleteUploadRequest: the required fields
\* first, the formats only when none is missing
CompleteValidationErrors(request) ==
  LET missing ==
        ErrorIf(request.fileId = <<>>, "fileId is required") \cup
        ErrorIf(request.s3Key = <<>>, "s3Key is required") \cup
        ErrorIf(request.uploadId = <<>>, "uploadId is required")
  IN  IF missing # {} THEN missing
      ELSE
        ErrorIf(~uuidRegex(request.fileId), "fileId") \cup
        ErrorIf(Includes(request.s3Key, <<".", ".">>) \/ StartsWith(request.s3Key, <<"/">>),
                "s3Key") \cup
        ErrorIf(Len(request.uploadId) < 10 \/ Len(request.uploadId) > 1024, "uploadId") \cup
        validateParts(request.parts)

NoError == [class |-> "none", statusCode |-> 0, errorCode |-> "", message |-> <<>>]

\* validateCompleteUploadRequest: the result it returns, or the error it throws
validateCompleteUploadRequest(request) ==
  LET errors == CompleteValidationErrors(request)
  IN  [isValid |-> errors = {}, errors |-> errors,
       thrown |-> IF errors = {} THEN NoError
                  ELSE ValidationError(M_completeValidation)]

\* ------------------------------------------------------------------------
\* Specification of completion validation over part lists
\* ------------------------------------------------------------------------

\* an MD5 tag, the same tag in quotes, and a quoted tag that is too short
E32 == [i \in 1..32 |-> "a"]

Etags == {E32, <<"\"">> \o E32 \o <<"\"">>,
          <<"\"">> \o SubSeq(E32, 1, 30) \o <<"\"">>}

\* longest part list enumerated; part numbers range over 0..MaxParts
MaxParts == 3

Parts == [partNumber : 0..MaxParts, etag : Etags]

\* the parts 1, 2, ..., k in order, all with the same valid tag
OrderedRun(k) == [i \in 1..k |-> [partNumber |-> i, etag |-> E32]]

\* a part list submitted: written out, or an ordered run given by its length
PartsOf(input) == IF input.run > 0 THEN OrderedRun(input.run) ELSE input.list

ValidFileId == <<"5","5","0","e","8","4","0","0","-","e","2","9","b","-","4","1","d","4","-","a","7","1","6","-","4","4","6","6","5","5","4","4","0","0","0","0">>

ValidUploadId == <<"v","a","l","i","d","-","u","p","l","o","a","d","-","i","d">>

\* a completion request whose fields other than parts are valid
CompleteRequestWith(input) ==
  [fileId |-> ValidFileId, s3Key |-> K_cd, uploadId |-> ValidUploadId,
   parts |-> input]

\* the requests submitted: every short part list, and the ordered runs at the
\* largest part number and one past it
InitParts ==
  /\ s3Config = DefaultConfig
  /\ store = BaseStore
  /\ sessions = {}
  /\ req = Idle
  /\ calls = <<>>
  /\ resp = NoResp
  /\ \/ \E n \in 0..MaxParts : \E l \in [1..n -> Parts] :
          arg = CompleteRequestWith([list |-> l, run |-> 0])
     \/ \E k \in {MaxPartNumber, MaxPartNumber + 1} :
          arg = CompleteRequestWith([list |-> <<>>, run |-> k])
  /\ ret = <<>>

\* validateCompleteUploadRequest(request)
ValidateComplete ==
  /\ ret = <<>>
  /\ ret' = validateCompleteUploadRequest([arg EXCEPT !.parts = PartsOf(arg.parts)])
  /\ UNCHANGED <<s3Config, store, sessions, req, calls, resp, arg>>

NextParts == ValidateComplete

SpecParts == InitParts /\ [][NextParts]_vars

\* every integrity tag of the list passes the tag checks of validateParts
TagsValid(parts) ==
  \A i \in 1..Len(parts) :
    /\ Len(Trim(parts[i].etag)) > 0
    /\ Len(RemoveChars(parts[i].etag, {"\""})) >= 32

\* the part numbers, in the order given, are 1, 2, ..., n
NumberedInOrder(parts) == \A i \in 1..Len(parts) : parts[i].partNumber = i

\* C8 (as stated): a part list with valid tags is accepted if and only if it
\* is non-empty and its part numbers in the order given are 1..n; every
\* other list is rejected with a ValidationError.
C8_AcceptsExactlyOrderedRuns ==
  (ret # <<>> /\ TagsValid(PartsOf(arg.parts))) =>
    /\ ret.isValid <=> (Len(PartsOf(arg.parts)) > 0 /\ NumberedInOrder(PartsOf(arg.parts)))
    /\ ~ret.isValid => ret.thrown.class = "ValidationError"

\* C8 (amended): a part list with valid tags is accepted if and only if it
\* is non-empty, has at most 10000 parts and its part numbers in the order
\* given are 1..n; every other list is rejected with a ValidationError.
C8_AcceptsOrderedRunsUpToMax ==
  (ret # <<>> /\ TagsValid(PartsOf(arg.parts))) =>
    /\ ret.isValid <=> /\ Len(PartsOf(arg.parts)) > 0
                       /\ Len(PartsOf(arg.parts)) <= MaxPartNumber
                       /\ NumberedInOrder(PartsOf(arg.parts))
    /\ ~ret.isValid => ret.thrown.class = "ValidationError"

\* an ordered run of two parts was accepted
C8_Witness ==
  /\ ret # <<>>
  /\ TagsValid(PartsOf(arg.parts))
  /\ Len(PartsOf(arg.parts)) = 2
  /\ NumberedInOrder(PartsOf(arg.parts))
  /\ ret.isValid

\* the parts 2, 1 with valid tags were rejected
C8_WitnessUnordered ==
  /\ ret # <<>>
  /\ TagsValid(PartsOf(arg.parts))
  /\ Len(PartsOf(arg.parts)) = 2
  /\ PartsOf(arg.parts)[1].partNumber = 2
  /\ PartsOf(arg.parts)[2].partNumber = 1
  /\ ~ret.isValid

\* ------------------------------------------------------------------------
\* Upload completion: the complete-upload handler and
\* S3Service.completeMultipartUpload
\* ------------------------------------------------------------------------

\* a key of u1 without the media-type segment, and a key with a traversal
K_noType == <<"u","p","l","o","a","d","s","/","u","1","/","2","0","2","5","/","0","1","/","0","1","/","g","1","/","a","b",".","j","p","g">>

K_traversal == <<"u","p","l","o","a","d","s","/","u","1","/",".",".","/","u","2","/","a","b",".","j","p","g">>

CompleteKeys == {K_cd, K_u2, K_noType, K_traversal}

CompleteRequests ==
  [fileId : {ValidFileId, G1}, s3Key : CompleteKeys,
   uploadId : {ValidUploadId, <<"s","h","o","r","t">>},
   parts : {OrderedRun(1), OrderedRun(2),
            <<OrderedRun(2)[2], OrderedRun(2)[1]>>}]

\* the session of an upload in progress under a key
Session(s3Key, uploadId) == [s3Key |-> s3Key, uploadId |-> uploadId]

OpenSessions == {Session(K_cd, ValidUploadId), Session(K_u2, ValidUploadId)}

M_storeFailure == <<"I","n","t","e","r","n","a","l","E","r","r","o","r">>

M_noLocation == <<"S","3"," ","d","i","d"," ","n","o","t"," ","r","e","t","u","r","n"," ","a"," ","l","o","c","a","t","i","o","n"," ","f","o","r"," ","t","h","e"," ","c","o","m","p","l","e","t","e","d"," ","u","p","l","o","a","d">>

NotThrown == [error |-> NoError, details |-> [error |-> <<>>, fileId |-> <<>>]]

\* handler: authenticated userId, body {fileId, s3Key, uploadId, parts};
\* validation, the ownership gate on the caller-supplied key
\* (authorizeFileAccess), then completeMultipartUpload up to its first store
\* call
CompleteHandler(authUserId, request) ==
  /\ CanStart
  /\ calls' = <<>>
  /\ LET validation == validateCompleteUploadRequest(request)
         entered == [op |-> "complete", pc |-> "assemble", at |-> "",
                     n |-> req.n + 1, userId |-> authUserId,
                     fileId |-> request.fileId, s3Key |-> request.s3Key,
                     uploadId |-> request.uploadId, parts |-> request.parts,
                     validated |-> validation.isValid, assemble |-> "",
                     cause |-> <<>>, thrown |-> NotThrown]
     IN  IF ~validation.isValid
           THEN /\ req' = [entered EXCEPT !.pc = "rejected"]
                /\ resp' = HandleError(validation.thrown)
         ELSE IF ~authorizeFileAccess(request.s3Key, authUserId)
           THEN /\ req' = [entered EXCEPT !.pc = "rejected"]
                /\ resp' = HandleError(AuthorizationError(M_forbidden))
         ELSE /\ req' = entered
              /\ resp' = NoResp
  /\ UNCHANGED <<s3Config, store, sessions, arg, ret>>

InComplete(pc) == req.op = "complete" /\ req.pc = pc

\* a store that assembles a session whether or not it is open
AssembleOutcomesAlways(s3Key, uploadId) == {"ok", "noLocation", "error"}

\* CompleteMultipartUpload: it succeeds only on an open session; the
\* response may lack Location
AssembleOutcomes(s3Key, uploadId) ==
  IF Session(s3Key, uploadId) \in sessions
    THEN {"ok", "noLocation", "error"} ELSE {"error"}

\* the position after the assemble call
AfterAssemble(r) == IF r = "ok" THEN "readMetadata" ELSE "abort"

\* s3Client.send(CompleteMultipartUploadCommand) and the test of Location
CompleteAssemble ==
  /\ InComplete("assemble")
  /\ \E r \in AssembleOutcomes(req.s3Key, req.uploadId) :
       /\ calls' = Append(calls, Call("CompleteMultipartUpload", req.s3Key,
                                      <<>>, r # "error"))
       /\ req' = [req EXCEPT !.pc = AfterAssemble(r), !.assemble = r,
                             !.cause = IF r = "ok" THEN <<>>
                                       ELSE IF r = "noLocation" THEN M_noLocation
                                       ELSE M_storeFailure]
       /\ IF r = "error"
            THEN UNCHANGED <<store, sessions>>
            ELSE /\ store' = Put(store, req.s3Key,
                                 Object("N1", T_jpeg, req.userId, req.fileId,
                                        extractFilenameFromKey(req.s3Key)))
                 /\ sessions' = sessions \ {Session(req.s3Key, req.uploadId)}
  /\ UNCHANGED <<s3Config, resp, arg, ret>>

\* a read-back whose failure is treated as a failure of the completion
AfterReadMetadataStrict(r) == IF r = "found" THEN "done" ELSE "abort"

\* the position after getObjectMetadata, which never throws
AfterReadMetadata(r) == "done"

\* getObjectMetadata(s3Key) and the CompletedUpload returned
CompleteReadMetadata ==
  /\ InComplete("readMetadata")
  /\ \E r \in HeadOutcomes(req.s3Key) :
       LET metadata == getObjectMetadata(req.s3Key, r)
       IN  /\ calls' = Append(calls, Call("HeadObject", req.s3Key, <<>>, r = "found"))
           /\ req' = [req EXCEPT !.pc = AfterReadMetadata(r),
                                 !.cause = IF r = "found" THEN <<>> ELSE M_storeFailure]
           /\ resp' = IF AfterReadMetadata(r) = "done"
                        THEN [statusCode |-> 200,
                              data |-> [fileId |-> req.fileId, s3Key |-> req.s3Key,
                                        filename |-> metadata.originalFilename,
                                        fileType |-> metadata.fileType]]
                        ELSE resp
  /\ UNCHANGED <<s3Config, store, sessions, arg, ret>>

\* the catch block: abortMultipartUpload, whose own failure is logged and
\* dropped, then S3ServiceError with the message of the first error
CompleteAbort ==
  /\ InComplete("abort")
  /\ \E ok \in BOOLEAN :
       /\ calls' = Append(calls, Call("AbortMultipartUpload", req.s3Key, <<>>, ok))
       /\ sessions' = IF ok THEN sessions \ {Session(req.s3Key, req.uploadId)}
                            ELSE sessions
  /\ req' = [req EXCEPT !.pc = "failed",
                        !.thrown = [error |-> S3ServiceError(M_completeFailed),
                                    details |-> [error |-> req.cause,
                                                 fileId |-> req.fileId]]]
  /\ resp' = HandleError(S3ServiceError(M_completeFailed))
  /\ UNCHANGED <<s3Config, store, arg, ret>>

InitComplete ==
  /\ s3Config = DefaultConfig
  /\ store = BaseStore
  /\ sessions = OpenSessions
  /\ req = Idle
  /\ calls = <<>>
  /\ resp = NoResp
  /\ arg = <<>>
  /\ ret = <<>>

NextComplete ==
  \/ \E u \in Users, request \in CompleteRequests : CompleteHandler(u, request)
  \/ CompleteAssemble
  \/ CompleteReadMetadata
  \/ CompleteAbort

SpecComplete == InitComplete /\ [][NextComplete]_vars

\* ------------------------------------------------------------------------
\* Claims about upload completion (specification SpecComplete)
\* ------------------------------------------------------------------------

\* the calls that ask the store to assemble or to abort a session
SessionCalls == CallsOf({"CompleteMultipartUpload", "AbortMultipartUpload"})

C7_InvalidKeyRejected ==
  (req.op = "complete" /\ ~validateFileKey(req.s3Key)) =>
    /\ ~req.validated
    /\ req.pc = "rejected"
    /\ resp.statusCode = 400

\* the abort calls issued by the request
AbortCalls == CallsOf({"AbortMultipartUpload"})

\* C9: when the assemble call fails, exactly one abort is attempted, the
\* outcome of the abort changes nothing, and the caller receives the service
\* error carrying the first failure; when the assemble call succeeds with a
\* location, no abort is attempted, whatever the metadata read-back does.
C9_OneAbortOnFailureNoneOnSuccess ==
  req.op = "complete" =>
    /\ Cardinality(AbortCalls) <= 1
    /\ (req.assemble = "error" /\ req.pc \in Terminal) =>
         /\ req.pc = "failed"
         /\ Cardinality(AbortCalls) = 1
         /\ req.thrown.error = S3ServiceError(M_completeFailed)
         /\ req.thrown.details.error = M_storeFailure
         /\ resp.statusCode = 500
    /\ req.assemble = "ok" =>
         /\ AbortCalls = {}
         /\ req.pc \in {"readMetadata", "done"}
         /\ req.pc = "done" => resp.statusCode = 200

\* the assemble call failed and so did the abort
C9_Witness ==
  /\ InComplete("failed")
  /\ req.assemble = "error"
  /\ \E i \in AbortCalls : ~calls[i].ok

\* the assemble call succeeded and the metadata read-back failed
C9_WitnessReadBackFailed ==
  /\ InComplete("done")
  /\ req.assemble = "ok"
  /\ ~calls[Len(calls)].ok

\* ------------------------------------------------------------------------
\* The user whose key prefix a request reaches: the five handlers, each run
\* on two events that differ only in the userId the client wrote
\* ------------------------------------------------------------------------

\* the API Gateway event: the authorizer context, and the userId, mediaType
\* and key that the client put in the query string or the body
\* (<<>> for a field that is absent)
Event(authUserId, clientUserId, mediaType, fileKey) ==
  [authorizer |-> [userId |-> authUserId], userId |-> clientUserId,
   mediaType |-> mediaType, fileKey |-> fileKey]

\* getAuthenticatedUserId: the userId of the authorizer context (401 when absent)
getAuthenticatedUserId(event) ==
  IF event.authorizer.userId = <<>> THEN Err("UNAUTHORIZED")
  ELSE Ok(event.authorizer.userId)

\* ValidationService.validateUserId: TRUE when it does not throw
validateUserId(userId) ==
  /\ userId # <<>>
  /\ Len(Trim(userId)) > 0
  /\ AllIn(Trim(userId), UserIdChars)
  /\ Len(Trim(userId)) <= 128

\* a variant that leaves out the slash that closes the userId segment
ListPrefixNoSlash(userId, mediaType) ==
  s3Config.keyPrefix \o <<"/">> \o userId \o
  (IF mediaType # <<>> THEN <<"/">> \o mediaType \o <<"/">> ELSE <<>>)

\* the prefix listMediaFiles lists
ListPrefix(userId, mediaType) ==
  s3Config.keyPrefix \o <<"/">> \o userId \o <<"/">> \o
  (IF mediaType # <<>> THEN mediaType \o <<"/">> ELSE <<>>)

\* list-media handler: the prefixes it lists
ListAccess(event) ==
  IF event.userId = <<>> \/ ~validateUserId(event.userId) THEN {}
  ELSE {ListPrefix(event.userId, event.mediaType)}

\* search-media handler: the prefixes searchMediaFiles lists
SearchAccess(event) ==
  IF event.userId = <<>> \/ ~validateUserId(event.userId) THEN {}
  ELSE IF event.mediaType # <<>>
    THEN {ListPrefix(event.userId, event.mediaType)}
    ELSE {ListPrefix(event.userId, S_visual), ListPrefix(event.userId, S_audio)}

\* upload handler, one file that passes validateFiles: the key under which
\* createMultipartUploads opens a session
UploadAccess(event) ==
  IF ~validateUserId(event.userId) THEN {}
  ELSE {generateS3Key(event.userId, G1, F_ab, T_jpeg,
                      [year |-> 2025, month |-> 1, day |-> 5])}

\* delete-media handler, body {fileKeys: [fileKey], userId}: the keys that
\* deleteMediaFiles is given
DeleteAccess(event) ==
  LET userId == getAuthenticatedUserId(event)
      request == [userId |-> userId.value, fileKeys |-> <<event.fileKey>>]
  IN  IF ~userId.ok \/ Len(DeleteValidationErrors(request)) > 0 THEN {}
      ELSE {event.fileKey}

\* rename-media handler, body {fileKey, newFilename, userId}: the keys that
\* renameMediaFile is given
RenameAccess(event) ==
  LET userId == getAuthenticatedUserId(event)
      request == [userId |-> userId.value, fileKey |-> event.fileKey,
                  newFilename |-> F_cd]
  IN  IF ~userId.ok \/ Len(RenameValidationErrors(request)) > 0 THEN {}
      ELSE {event.fileKey, buildRenamedKey(event.fileKey, sanitizeFilename(F_cd).value)}

ClientUserIds == {<<>>} \cup Users

MediaTypes == {<<>>, S_visual, S_audio}

\* one authenticated user, two client-supplied userIds, and the fields the
\* two requests share
InitAccess ==
  /\ s3Config = DefaultConfig
  /\ store = BaseStore
  /\ sessions = {}
  /\ req = Idle
  /\ calls = <<>>
  /\ resp = NoResp
  /\ arg \in [authUserId : Users, first : ClientUserIds, second : ClientUserIds,
              mediaType : MediaTypes, fileKey : {K_ab, K_u2}]
  /\ ret = <<>>

FirstEvent == Event(arg.authUserId, arg.first, arg.mediaType, arg.fileKey)

SecondEvent == Event(arg.authUserId, arg.second, arg.mediaType, arg.fileKey)

\* the two requests reach the handler of an endpoint
Serve(endpoint, first, second) ==
  /\ ret = <<>>
  /\ ret' = [endpoint |-> endpoint, first |-> first, second |-> second]
  /\ UNCHANGED <<s3Config, store, sessions, req, calls, resp, arg>>

ServeList == Serve("list", ListAccess(FirstEvent), ListAccess(SecondEvent))

ServeSearch == Serve("search", SearchAccess(FirstEvent), SearchAccess(SecondEvent))

ServeUpload == Serve("upload", UploadAccess(FirstEvent), UploadAccess(SecondEvent))

ServeDelete == Serve("delete", DeleteAccess(FirstEvent), DeleteAccess(SecondEvent))

ServeRename == Serve("rename", RenameAccess(FirstEvent), RenameAccess(SecondEvent))

NextAccess ==
  \/ ServeList
  \/ ServeSearch
  \/ ServeUpload
  \/ ServeDelete
  \/ ServeRename

SpecAccess == InitAccess /\ [][NextAccess]_vars

\* C4: on every endpoint, two requests of the same authenticated user that
\* differ only in the userId supplied by the client reach the same keys and
\* prefixes of the store.
C4_ClientUserIdIgnored ==
  ret # <<>> => ret.first = ret.second

\* ------------------------------------------------------------------------
\* Two rename requests in flight at once: each is a handler of its own, started
\* by its own invocation; the bucket is the only thing they share. The
\* handler that runs is in req, calls and resp; the one that waits for a
\* store call to return is parked in arg.
\* ------------------------------------------------------------------------

K_sp == <<"u","p","l","o","a","d","s","/","u","1","/","a","u","d","i","o","/","2","0","2","5","/","0","1","/","0","1","/","g","2","/","s","p",".","m","p","3">>

K_cdThumb == <<"u","p","l","o","a","d","s","/","u","1","/","v","i","s","u","a","l","/","2","0","2","5","/","0","1","/","0","1","/","g","1","/","t","h","u","m","b","n","a","i","l","/","c","d",".","j","p","g">>

F_efJpg == <<"e","f",".","j","p","g">>

\* two visual primaries with their thumbnails and two audio primaries of u1,
\* each pair in one directory
ConcurrentStore ==
  (K_ab :> Object("P1", T_jpeg, U1, G1, F_ab)) @@
  (K_abThumb :> Object("T1", T_jpeg, U1, G1, F_thumbAb)) @@
  (K_cd :> Object("P3", T_jpeg, U1, G1, F_cd)) @@
  (K_cdThumb :> Object("T3", T_jpeg, U1, G1, <<"t","h","u","m","b","n","a","i","l","/","c","d",".","j","p","g">>)) @@
  (K_so :> Object("A1", T_mpeg, U1, G2, <<"s","o",".","m","p","3">>)) @@
  (K_sp :> Object("A2", T_mpeg, U1, G2, <<"s","p",".","m","p","3">>))

ConcurrentFileKeys == {K_ab, K_cd, K_so, K_sp}

ConcurrentFilenames == {F_efJpg, F_xyMp3}

\* the handler that is not running: its request, its store calls, its response
Parked(r, c, p) == [req |-> r, calls |-> c, resp |-> p]

InitConcurrent ==
  /\ s3Config = DefaultConfig
  /\ store = ConcurrentStore
  /\ sessions = {}
  /\ req = Idle
  /\ calls = <<>>
  /\ resp = NoResp
  /\ arg = Parked(Idle, <<>>, NoResp)
  /\ ret = <<>>

\* the running handler awaits a store call and the other handler goes on
Switch ==
  /\ req' = arg.req
  /\ calls' = arg.calls
  /\ resp' = arg.resp
  /\ arg' = Parked(req, calls, resp)
  /\ UNCHANGED <<s3Config, store, sessions, ret>>

NextConcurrent ==
  \/ \E k \in ConcurrentFileKeys, f \in ConcurrentFilenames : RenameHandler(U1, k, f)
  \/ RenameCheckNew
  \/ RenameCheckSource
  \/ RenameGetMetadata
  \/ RenameCopyOriginal
  \/ RenameCopyThumbnail
  \/ RenameDeleteOriginal
  \/ RenameDeleteThumbnail
  \/ RenamePresign
  \/ Switch

SpecConcurrent == InitConcurrent /\ [][NextConcurrent]_vars

\* the two handlers rename different sources of the bucket to one new key
SameNewKey ==
  /\ req.op = "rename" /\ req.pc # "rejected"
  /\ arg.req.op = "rename" /\ arg.req.pc # "rejected"
  /\ req.newKey = arg.req.newKey
  /\ req.oldKey # arg.req.oldKey

\* the content that the bucket held at key k at the start is held at some key
ContentKept(k) ==
  \E k2 \in DOMAIN store : store[k2].content = ConcurrentStore[k].content

\* C11: for two concurrent renames whose new keys coincide, under every
\* interleaving of their store calls at most one of the two succeeds and the
\* content of neither source is lost.
C11_SameTargetNeverOverwritten ==
  SameNewKey =>
    /\ ~(req.pc = "done" /\ arg.req.pc = "done")
    /\ ContentKept(req.oldKey)
    /\ ContentKept(arg.req.oldKey)

\* ------------------------------------------------------------------------
\* The media catalog reader: S3Service.listMediaFiles, searchMediaFiles and
\* listAndFilterFiles over a bucket that they only read
\* ------------------------------------------------------------------------

\* the characters of the keys in their UTF-8 order
AsciiSeq == <<" ", "-", ".", "/">> \o DigitSeq \o UpperSeq \o <<"_">> \o LowerSeq

CharCodeOf == [c \in Range(AsciiSeq) |-> CHOOSE i \in 1..Len(AsciiSeq) : AsciiSeq[i] = c]

\* a sorts before b from index i on, in the binary order the bucket lists keys in
RECURSIVE KeyLessFrom(_, _, _)
KeyLessFrom(a, b, i) ==
  IF i > Len(a) THEN i <= Len(b)
  ELSE IF i > Len(b) THEN FALSE
  ELSE IF a[i] = b[i] THEN KeyLessFrom(a, b, i + 1)
  ELSE CharCodeOf[a[i]] < CharCodeOf[b[i]]

KeyLess(a, b) == KeyLessFrom(a, b, 1)

\* MaxKeys of the one ListObjectsV2 call that listAndFilterFiles makes per prefix
SearchMaxKeys == 1000

\* a user whose id is a proper prefix of u1
U0 == <<"u">>

CatalogUsers == {U0, U1, U2}

K_u0 == <<"u","p","l","o","a","d","s","/","u","/","v","i","s","u","a","l","/","2","0","2","5","/","0","1","/","0","1","/","g","5","/","a","b",".","j","p","g">>

K_song == <<"u","p","l","o","a","d","s","/","u","1","/","a","u","d","i","o","/","2","0","2","5","/","0","1","/","0","2","/","g","4","/","V","a","c","a","t","i","o","n","-","s","o","n","g",".","m","p","3">>

K_vac == <<"u","p","l","o","a","d","s","/","u","1","/","v","i","s","u","a","l","/","2","0","2","5","/","0","1","/","0","1","/","g","1","/","V","a","c","a","t","i","o","n",".","M","P","4">>

K_vacThumb == <<"u","p","l","o","a","d","s","/","u","1","/","v","i","s","u","a","l","/","2","0","2","5","/","0","1","/","0","1","/","g","1","/","t","h","u","m","b","n","a","i","l","/","V","a","c","a","t","i","o","n",".","j","p","g">>

\* the i-th of the audio uploads of u1 that fill a page of the listing, each
\* in the directory of its own fileId
FillerKey(i) ==
  <<"u","p","l","o","a","d","s","/","u","1","/","a","u","d","i","o","/","2","0","2","5","/","0","1","/","0","1","/","f">> \o
  SubSeq(NumToStr(10000 + i), 2, 5) \o <<"/","a",".","m","p","3">>

FillerKeys == [i \in 1..SearchMaxKeys |-> FillerKey(i)]

\* an object of the bucket as the listing shows it: Key, LastModified, Size
CatalogObject(content, lastModified) ==
  [content |-> content, lastModified |-> lastModified, size |-> 1]

\* a bucket of three users: u1 holds a video with its thumbnail, an image
\* without thumbnail and two audio files
SmallCatalog ==
  (K_u0 :> CatalogObject("P0", 1)) @@
  (K_so :> CatalogObject("A1", 4)) @@
  (K_song :> CatalogObject("A2", 7)) @@
  (K_vac :> CatalogObject("P4", 5)) @@
  (K_ab :> CatalogObject("P1", 3)) @@
  (K_vacThumb :> CatalogObject("T4", 5)) @@
  (K_u2 :> CatalogObject("P2", 6))

\* the same bucket after u1 uploaded SearchMaxKeys more audio files
LargeCatalog ==
  [k \in (DOMAIN SmallCatalog) \cup Range(FillerKeys) |->
     IF k \in DOMAIN SmallCatalog THEN SmallCatalog[k]
     ELSE CatalogObject("F", 2)]

CatalogStores == {SmallCatalog, LargeCatalog}

\* the keys of the catalogs in the order in which the bucket lists them
CatalogKeyOrder ==
  <<K_u0>> \o FillerKeys \o <<K_so, K_song, K_vac, K_ab, K_vacThumb, K_u2>>

\* CatalogKeyOrder is in the bucket's order
KeyOrderAscending ==
  \A i \in 1..(Len(CatalogKeyOrder) - 1) :
    KeyLess(CatalogKeyOrder[i], CatalogKeyOrder[i + 1])

Min(a, b) == IF a <= b THEN a ELSE b

\* ListObjectsV2: the keys of the bucket that start with Prefix, in order,
\* after the continuation token, cut at MaxKeys
ListObjectsV2(prefix, maxKeys, continuationToken) ==
  LET all == SelectSeq(CatalogKeyOrder,
                LAMBDA k : /\ k \in DOMAIN store
                           /\ StartsWith(k, prefix)
                           /\ \/ continuationToken = <<>>
                              \/ KeyLess(continuationToken, k))
  IN  [Contents |-> SubSeq(all, 1, Min(maxKeys, Len(all))),
       IsTruncated |-> Len(all) > maxKeys,
       NextContinuationToken |-> IF Len(all) > maxKeys THEN all[maxKeys] ELSE <<>>]

\* the MediaFileInfo that the map callback of listMediaFiles and of
\* listAndFilterFiles builds for a listed key ("" for a null thumbnailUrl)
MediaFileInfo(fileKey) ==
  LET extractedMediaType == extractMediaTypeFromKey(fileKey)
  IN  [fileKey |-> fileKey,
       filename |-> S3ExtractFilenameFromKey(fileKey),
       mediaType |-> extractedMediaType,
       size |-> store[fileKey].size,
       uploadedAt |-> store[fileKey].lastModified,
       url |-> "url",
       thumbnailUrl |-> IF /\ requiresThumbnail(extractedMediaType)
                           /\ Exists(store, getThumbnailKey(fileKey))
                          THEN "url" ELSE ""]

\* the checkFileExists calls that the map callback makes for the listed keys
ThumbnailProbes(fileKeys) ==
  LET visual == SelectSeq(fileKeys,
                  LAMBDA k : requiresThumbnail(extractMediaTypeFromKey(k)))
  IN  [i \in 1..Len(visual) |->
         Call("HeadObject", getThumbnailKey(visual[i]), <<>>, TRUE)]

\* listMediaFiles when no store call fails: its result and its store calls
listMediaFiles(params) ==
  LET prefix == ListPrefix(params.userId, params.mediaType)
      response == ListObjectsV2(prefix, params.limit, params.continuationToken)
      fileKeys == SelectSeq(response.Contents, LAMBDA k : ~isThumbnailPath(k))
  IN  [files |-> [i \in 1..Len(fileKeys) |-> MediaFileInfo(fileKeys[i])],
       hasMore |-> response.IsTruncated,
       nextToken |-> response.NextContinuationToken,
       calls |-> <<Call("ListObjectsV2", prefix, <<>>, TRUE)>> \o
                 ThumbnailProbes(fileKeys)]

\* listAndFilterFiles when no store call fails
listAndFilterFiles(prefix, searchQuery, continuationToken) ==
  LET response == ListObjectsV2(prefix, SearchMaxKeys, continuationToken)
      fileKeys == SelectSeq(response.Contents,
                    LAMBDA k : /\ ~isThumbnailPath(k)
                               /\ Includes(ToLowerCase(S3ExtractFilenameFromKey(k)),
                                           searchQuery))
  IN  [files |-> [i \in 1..Len(fileKeys) |-> MediaFileInfo(fileKeys[i])],
       calls |-> <<Call("ListObjectsV2", prefix, <<>>, TRUE)>> \o
                 ThumbnailProbes(fileKeys)]

\* Array.prototype.sort with the comparator dateB - dateA: most recent first,
\* equal dates in their order of arrival
SortByUploadedAtDesc(files) ==
  LET n == Len(files)
      rank == [j \in 1..n |->
                 1 + Cardinality({k \in 1..n :
                       \/ files[k].uploadedAt > files[j].uploadedAt
                       \/ /\ files[k].uploadedAt = files[j].uploadedAt
                          /\ k < j})]
  IN  [r \in 1..n |-> files[CHOOSE j \in 1..n : rank[j] = r]]

\* searchMediaFiles when no store call fails
searchMediaFiles(params) ==
  LET searchQuery == ToLowerCase(Trim(params.query))
      single == listAndFilterFiles(ListPrefix(params.userId, params.mediaType),
                                   searchQuery, params.continuationToken)
      visual == listAndFilterFiles(ListPrefix(params.userId, S_visual),
                                   searchQuery, <<>>)
      audio == listAndFilterFiles(ListPrefix(params.userId, S_audio),
                                  searchQuery, <<>>)
      allFiles == IF params.mediaType # <<>>
                    THEN single.files
                    ELSE SortByUploadedAtDesc(visual.files \o audio.files)
      hasMore == Len(allFiles) > params.limit
  IN  [files |-> SubSeq(allFiles, 1, Min(params.limit, Len(allFiles))),
       hasMore |-> hasMore,
       nextToken |-> IF hasMore THEN <<"h","a","s","-","m","o","r","e">> ELSE <<>>,
       calls |-> IF params.mediaType # <<>> THEN single.calls
                 ELSE visual.calls \o audio.calls]

M_listFailed == <<"F","a","i","l","e","d"," ","t","o"," ","l","i","s","t"," ","m","e","d","i","a"," ","f","i","l","e","s"," ","f","r","o","m"," ","S","3">>

M_searchFailed == <<"F","a","i","l","e","d"," ","t","o"," ","s","e","a","r","c","h"," ","m","e","d","i","a"," ","f","i","l","e","s"," ","f","r","o","m"," ","S","3">>

Limits == {1, 2, 50}

Queries == {<<"v","a","c">>, <<"A","B">>, <<"s","o">>, <<" ","V","a","c"," ">>, <<"z","z">>}

ListRequests ==
  [op : {"list"}, userId : CatalogUsers, mediaType : MediaTypes, limit : Limits,
   continuationToken : {<<>>, K_so}]

SearchRequests ==
  [op : {"search"}, userId : CatalogUsers, query : Queries,
   mediaType : MediaTypes, limit : Limits, continuationToken : {<<>>}]

\* a call of the service: the store calls in order; when the k-th of them
\* fails the service throws an S3ServiceError and the later ones are not made
Serving(result, message) ==
  /\ req = Idle
  /\ \/ /\ calls' = result.calls
        /\ req' = [op |-> arg.op, pc |-> "done", at |-> "", n |-> 1]
        /\ resp' = [statusCode |-> 200, errorCode |-> "", files |-> result.files,
                    hasMore |-> result.hasMore, nextToken |-> result.nextToken]
     \/ \E k \in 1..Len(result.calls) :
          /\ calls' = [i \in 1..k |->
                         IF i < k THEN result.calls[i]
                         ELSE [result.calls[i] EXCEPT !.ok = FALSE]]
          /\ req' = [op |-> arg.op, pc |-> "failed", at |-> "", n |-> 1]
          /\ resp' = HandleError(S3ServiceError(message))
  /\ UNCHANGED <<s3Config, store, sessions, arg, ret>>

ListMedia ==
  /\ arg.op = "list"
  /\ Serving(listMediaFiles(arg), M_listFailed)

SearchMedia ==
  /\ arg.op = "search"
  /\ Serving(searchMediaFiles(arg), M_searchFailed)

InitCatalog ==
  /\ KeyOrderAscending
  /\ s3Config = DefaultConfig
  /\ store \in CatalogStores
  /\ sessions = {}
  /\ req = Idle
  /\ calls = <<>>
  /\ resp = NoResp
  /\ arg \in ListRequests \cup SearchRequests
  /\ ret = <<>>

\* number of pages a client asks for in one search
MaxPages == 3

\* the continuation tokens that the store issued: it rejects any other
TokenIssued(token) == token \in Range(CatalogKeyOrder)

\* the client repeats its search with the nextToken of the last answer as
\* continuationToken; ret holds the keys it was given before
SearchFollow ==
  /\ req.op = "search"
  /\ req.pc = "done"
  /\ resp.hasMore
  /\ req.n < MaxPages
  /\ LET params == [arg EXCEPT !.continuationToken = resp.nextToken]
         result == searchMediaFiles(params)
     IN  /\ arg' = params
         /\ ret' = ret \o [i \in 1..Len(resp.files) |-> resp.files[i].fileKey]
         /\ IF params.mediaType # <<>> /\ ~TokenIssued(params.continuationToken)
              THEN /\ calls' = <<[result.calls[1] EXCEPT !.ok = FALSE]>>
                   /\ req' = [req EXCEPT !.pc = "failed", !.at = "token",
                                         !.n = @ + 1]
                   /\ resp' = HandleError(S3ServiceError(M_searchFailed))
              ELSE \/ /\ calls' = result.calls
                      /\ req' = [req EXCEPT !.n = @ + 1]
                      /\ resp' = [statusCode |-> 200, errorCode |-> "",
                                  files |-> result.files,
                                  hasMore |-> result.hasMore,
                                  nextToken |-> result.nextToken]
                   \/ \E k \in 1..Len(result.calls) :
                        /\ calls' = [i \in 1..k |->
                                       IF i < k THEN result.calls[i]
                                       ELSE [result.calls[i] EXCEPT !.ok = FALSE]]
                        /\ req' = [req EXCEPT !.pc = "failed", !.at = "fault",
                                              !.n = @ + 1]
                        /\ resp' = HandleError(S3ServiceError(M_searchFailed))
  /\ UNCHANGED <<s3Config, store, sessions>>

NextCatalog ==
  \/ ListMedia
  \/ SearchMedia
  \/ SearchFollow

SpecCatalog == InitCatalog /\ [][NextCatalog]_vars


\* the HeadObject calls made on key k
ProbesOf(k) == {i \in CallsOf({"HeadObject"}) : calls[i].key = k}

ListAnswered == req.op = "list" /\ req.pc = "done"

\* C17: every list result contains no key with a /thumbnail/ segment, and for
\* every returned file: a visual file with an object at its derived thumbnail
\* key has a thumbnailUrl, a visual file without such an object has none, and
\* an audio file has none and its thumbnail key is never probed
C17_ListThumbnails ==
  ListAnswered =>
    \A i \in DOMAIN resp.files :
      LET key == resp.files[i].fileKey
          thumb == DerivedThumbnailKey(key)
      IN  /\ S_thumbnail \notin Range(Split(key, "/"))
          /\ ~IsAudioKey(key) /\ Exists(store, thumb)
               => resp.files[i].thumbnailUrl # ""
          /\ ~IsAudioKey(key) /\ ~Exists(store, thumb)
               => resp.files[i].thumbnailUrl = ""
          /\ IsAudioKey(key)
               => resp.files[i].thumbnailUrl = "" /\ ProbesOf(thumb) = {}

\* a list answered with a visual file that has a thumbnail, one that has
\* none and an audio file, under a prefix that also holds a thumbnail object
C17_Witness ==
  /\ ListAnswered
  /\ arg.mediaType = <<>>
  /\ Exists(store, K_vacThumb)
  /\ \E i, j, k \in DOMAIN resp.files :
       /\ resp.files[i].fileKey = K_vac /\ resp.files[i].thumbnailUrl # ""
       /\ resp.files[j].fileKey = K_ab /\ resp.files[j].thumbnailUrl = ""
       /\ resp.files[k].fileKey = K_so /\ resp.files[k].thumbnailUrl = ""


CatalogAnswered == req.op \in {"list", "search"} /\ req.pc = "done"

\* C18: every key that list or search returns for user u lies under
\* {keyPrefix}/u/ and its userId segment is u, also when the bucket holds
\* keys of a user whose id has u as a proper prefix
C18_OnlyOwnKeys ==
  CatalogAnswered =>
    \A i \in DOMAIN resp.files :
      /\ StartsWith(resp.files[i].fileKey,
                    s3Config.keyPrefix \o <<"/">> \o arg.userId \o <<"/">>)
      /\ UserSegment(resp.files[i].fileKey) = arg.userId

\* user u, whose id is a proper prefix of u1, is answered with its own file
\* from a bucket that holds files of u1
C18_Witness ==
  /\ CatalogAnswered
  /\ arg.userId = U0
  /\ StartsWith(U1, U0) /\ U1 # U0
  /\ \E k \in DOMAIN store : UserSegment(k) = U1
  /\ \E i \in DOMAIN resp.files : resp.files[i].fileKey = K_u0


SearchAnswered == req.op = "search" /\ req.pc = "done"

\* the primaries of user u in the bucket whose final path segment contains
\* the query as a case-insensitive substring: the keys under the visual/ and
\* audio/ prefixes of u that are not thumbnail keys
MatchesOf(userId, query) ==
  {k \in DOMAIN store :
     /\ \E t \in {S_visual, S_audio} :
          StartsWith(k, s3Config.keyPrefix \o <<"/">> \o userId \o <<"/">> \o
                        t \o <<"/">>)
     /\ S_thumbnail \notin Range(Split(k, "/"))
     /\ Includes(ToLowerCase(LastSegment(k)), ToLowerCase(Trim(query)))}

\* C19: a search with category omitted returns at most limit files, each a
\* matching primary of the user labelled with the category of its key, and
\* misses no matching primary when at most limit of them match
C19_SearchReturnsTheMatches ==
  SearchAnswered /\ arg.mediaType = <<>> =>
    LET matches == MatchesOf(arg.userId, arg.query)
        returned == {resp.files[i].fileKey : i \in DOMAIN resp.files}
    IN  /\ Len(resp.files) <= arg.limit
        /\ returned \subseteq matches
        /\ \A i \in DOMAIN resp.files :
             resp.files[i].mediaType =
               IF IsAudioKey(resp.files[i].fileKey) THEN S_audio ELSE S_visual
        /\ Cardinality(matches) <= arg.limit => matches \subseteq returned


\* C20: when both categories are searched, the returned files are in
\* descending order of upload timestamp, are the limit most recent of all
\* matches, number at most limit, and hasMore is true exactly when more than
\* limit files matched
C20_MostRecentFirst ==
  SearchAnswered /\ arg.mediaType = <<>> =>
    LET matches == MatchesOf(arg.userId, arg.query)
        returned == {resp.files[i].fileKey : i \in DOMAIN resp.files}
    IN  /\ \A i, j \in DOMAIN resp.files :
             i < j => resp.files[i].uploadedAt >= resp.files[j].uploadedAt
        /\ returned \subseteq matches
        /\ Len(resp.files) = Min(arg.limit, Cardinality(matches))
        /\ Cardinality(returned) = Len(resp.files)
        /\ \A k \in matches \ returned : \A i \in DOMAIN resp.files :
             store[k].lastModified <= resp.files[i].uploadedAt
        /\ resp.hasMore <=> Cardinality(matches) > arg.limit


\* the answer to a search that carried the nextToken of the answer before,
\* while the store served every call it was sent
FollowUpAnswered == req.op = "search" /\ req.n >= 2 /\ req.at # "fault"

\* C21: whenever a search answered hasMore, the search repeated with the
\* returned nextToken succeeds and returns only matches that were not
\* returned before
C21_FollowUpReturnsNewMatches ==
  FollowUpAnswered =>
    /\ resp.statusCode = 200
    /\ \A i \in DOMAIN resp.files : resp.files[i].fileKey \notin Range(ret)

\* ------------------------------------------------------------------------
\* sanitizeFilename applied to client filenames, and to its own results
\* ------------------------------------------------------------------------

\* longest head of a filename enumerated
MaxNameLen == 4

NameChars == {"a", ".", "/", "\\", " ", "<"}

NameHeads == UNION {[1..n -> NameChars] : n \in 0..MaxNameLen}

NameTails == {<<>>, <<"b",".","j","p","g">>, <<"/","b",".","j","p","g">>, <<">",".","E","x","e">>}

ClientFilenames == {h \o t : h \in NameHeads, t \in NameTails}

InitSanitize ==
  /\ s3Config = DefaultConfig
  /\ store = BaseStore
  /\ sessions = {}
  /\ req = Idle
  /\ calls = <<>>
  /\ resp = NoResp
  /\ arg \in ClientFilenames
  /\ ret = <<>>

\* sanitizeFilename(arg)
Sanitize ==
  /\ ret = <<>>
  /\ ret' = <<sanitizeFilename(arg)>>
  /\ UNCHANGED <<s3Config, store, sessions, req, calls, resp, arg>>

\* sanitizeFilename applied to the value it returned
SanitizeAgain ==
  /\ Len(ret) = 1
  /\ ret[1].ok
  /\ ret' = Append(ret, sanitizeFilename(ret[1].value))
  /\ UNCHANGED <<s3Config, store, sessions, req, calls, resp, arg>>

NextSanitize ==
  \/ Sanitize
  \/ SanitizeAgain

SpecSanitize == InitSanitize /\ [][NextSanitize]_vars

\* C28: for every filename f that sanitizeFilename accepts,
\* sanitizeFilename(sanitizeFilename(f)) is accepted and equals
\* sanitizeFilename(f)
C28_SanitizeIdempotent ==
  Len(ret) = 2 => ret[2].ok /\ ret[2].value = ret[1].value

\* C29: every value returned by sanitizeFilename contains no path-traversal
\* signature and no backslash, does not start with a dot, and ends in a
\* non-empty extension that is not in the dangerous-extension denylist
C29_SanitizedIsSafe ==
  Len(ret) >= 1 /\ ret[1].ok =>
    LET v == ret[1].value
    IN  /\ \A i \in DOMAIN PATH_TRAVERSAL_PATTERNS :
             ~Includes(v, PATH_TRAVERSAL_PATTERNS[i])
        /\ "\\" \notin Range(v)
        /\ v[1] # "."
        /\ ExtensionOf(v) # <<>>
        /\ ExtensionOf(v) \notin DANGEROUS_EXTENSIONS

\* ------------------------------------------------------------------------
\* services/validation.service.ts : upload requests
\* ------------------------------------------------------------------------

MiB == 1024 * 1024

\* validationConfig, with MAX_FILE_SIZE set to 20 MiB and the other values at
\* their defaults
validationConfig ==
  [maxFileSize |-> 20 * MiB,
   minFileSize |-> 1,
   maxFilesPerRequest |-> 10,
   maxFilenameLength |-> MaxFilenameLen,
   allowedMimeTypes |->
     {<<"i","m","a","g","e","/","j","p","e","g">>, <<"i","m","a","g","e","/","p","n","g">>, <<"i","m","a","g","e","/","g","i","f">>, <<"i","m","a","g","e","/","w","e","b","p">>,
      <<"v","i","d","e","o","/","m","p","4">>, <<"v","i","d","e","o","/","q","u","i","c","k","t","i","m","e">>, <<"v","i","d","e","o","/","x","-","m","s","v","i","d","e","o">>,
      <<"a","u","d","i","o","/","m","p","e","g">>, <<"a","u","d","i","o","/","w","a","v">>}]

\* a field that the request leaves out: '' for a string, -1 for fileSize
NoFile == [filename |-> <<>>, fileType |-> <<>>, fileSize |-> -1]

\* the characters of /[<>:"|?*\x00-\x1f]/
DangerousChars == {"<", ">", ":", "\"", "|", "?", "*"} \cup ControlChars

\* validateFilename: the errors it returns
validateFilename(filename) ==
  ErrorIf(Len(filename) > validationConfig.maxFilenameLength, "filenameLength") \cup
  ErrorIf(Range(filename) \cap DangerousChars # {}, "filenameChars") \cup
  ErrorIf((\E i \in 1..6 : Includes(filename, PATH_TRAVERSAL_PATTERNS[i]))
            \/ "\\" \in Range(filename), "filenameTraversal") \cup
  ErrorIf(~Includes(filename, <<".">>), "filenameExtension")

\* validateFileType: the errors it returns
validateFileType(fileType) ==
  ErrorIf(Trim(ToLowerCase(fileType)) \notin validationConfig.allowedMimeTypes,
          "fileType")

\* validateFileSize: the errors it returns; fileSize is an integer
validateFileSize(fileSize) ==
  IF fileSize < 0 THEN {"fileSizeInteger"}
  ELSE ErrorIf(fileSize < validationConfig.minFileSize, "fileSizeBelowMinimum") \cup
       ErrorIf(fileSize > validationConfig.maxFileSize, "fileSizeExceedsMaximum")

\* validateSingleFile: the errors it returns
validateSingleFile(file) ==
  LET required ==
        ErrorIf(file.filename = <<>>, "filenameRequired") \cup
        ErrorIf(file.fileType = <<>>, "fileTypeRequired") \cup
        ErrorIf(file.fileSize = NoFile.fileSize, "fileSizeRequired")
  IN  IF required # {} THEN required
      ELSE validateFilename(file.filename) \cup
           validateFileType(file.fileType) \cup
           validateFileSize(file.fileSize)

M_filesRequired == <<"A","t"," ","l","e","a","s","t"," ","o","n","e"," ","f","i","l","e"," ","i","s"," ","r","e","q","u","i","r","e","d">>

M_tooManyFiles == <<"T","o","o"," ","m","a","n","y"," ","f","i","l","e","s">>

M_fileValidation == <<"F","i","l","e"," ","v","a","l","i","d","a","t","i","o","n"," ","f","a","i","l","e","d">>

\* class ValidationError with the ErrorCode given
ValidationErrorWith(errorCode, message) ==
  [class |-> "ValidationError", statusCode |-> 400,
   errorCode |-> errorCode, message |-> message]

\* what a validation of the files array throws for the errors collected
FilesThrown(files, errors) ==
  IF Len(files) = 0
    THEN ValidationErrorWith("INVALID_REQUEST", M_filesRequired)
  ELSE IF Len(files) > validationConfig.maxFilesPerRequest
    THEN ValidationErrorWith("TOO_MANY_FILES", M_tooManyFiles)
  ELSE IF errors # {}
    THEN ValidationErrorWith("INVALID_REQUEST", M_fileValidation)
  ELSE NoError

\* the errors validateFilesWithThumbnails collects for one group
GroupErrors(group) ==
  IF group.main = NoFile THEN {"mainRequired"}
  ELSE validateSingleFile(group.main) \cup
       (IF group.thumbnail = NoFile THEN {}
        ELSE validateSingleFile(group.thumbnail) \cup
             ErrorIf(group.thumbnail.fileType # <<>> /\
                     ~StartsWith(group.thumbnail.fileType, <<"i","m","a","g","e","/">>),
                     "thumbnailNotImage"))

\* validateFilesWithThumbnails: the error it throws, NoError when it returns
validateFilesWithThumbnails(files) ==
  FilesThrown(files, UNION {GroupErrors(files[i]) : i \in 1..Len(files)})

\* validateFiles: the error it throws, NoError when it returns
validateFiles(files) ==
  FilesThrown(files, UNION {validateSingleFile(files[i]) : i \in 1..Len(files)})

\* ------------------------------------------------------------------------
\* upload handler and S3Service.createMultipartUploads
\* ------------------------------------------------------------------------

\* a part count that drops the last, shorter part
calculatePartCountFloor(fileSize) == fileSize \div s3Config.partSize

\* calculatePartCount: Math.ceil(fileSize / partSize)
calculatePartCount(fileSize) ==
  IF fileSize % s3Config.partSize = 0
    THEN fileSize \div s3Config.partSize
    ELSE fileSize \div s3Config.partSize + 1

\* generatePresignedUrls: one PresignedUrlInfo per part number, in the order
\* of the loop; the url stands for the upload of that part to that session
generatePresignedUrls(s3Key, uploadId, partCount) ==
  [partNumber \in 1..partCount |->
     [partNumber |-> partNumber, url |-> <<uploadId, partNumber>>]]

\* uuidv4() of the i-th group of a request
FileIdOf(i) == SubSeq(ValidFileId, 1, 35) \o NumToStr(i)

\* the UploadId the store returns for a session it opens
UploadIdOf(i, role) == <<"u","p","l","o","a","d","-","i","d","-">> \o NumToStr(i) \o <<"-">> \o role

\* the UploadConfiguration that createSingleMultipartUpload returns;
\* now is the date the clock gives to generateS3Key
createSingleMultipartUpload(file, userId, fileId, uploadId, now) ==
  LET s3Key == generateS3Key(userId, fileId, file.filename, file.fileType, now)
  IN  [fileId |-> fileId,
       s3Key |-> s3Key,
       uploadId |-> uploadId,
       parts |-> generatePresignedUrls(s3Key, uploadId,
                                       calculatePartCount(file.fileSize)),
       filename |-> file.filename,
       fileType |-> file.fileType]

\* no thumbnail configuration
NoConfig == <<>>

\* the MediaFile that createMultipartUploadWithThumbnail builds for the
\* thumbnail
thumbnailFile(group) ==
  [group.thumbnail EXCEPT !.filename = <<"t","h","u","m","b","n","a","i","l","/">> \o @]

\* createMultipartUploadWithThumbnail for the i-th group of the request, when
\* every step succeeds; clock holds the dates read for the two keys
createMultipartUploadWithThumbnail(group, userId, i) ==
  [main |-> createSingleMultipartUpload(group.main, userId, FileIdOf(i),
                                        UploadIdOf(i, <<"m">>), group.clock[1]),
   thumbnail |->
     IF group.thumbnail = NoFile THEN NoConfig
     ELSE createSingleMultipartUpload(thumbnailFile(group), userId, FileIdOf(i),
                                      UploadIdOf(i, <<"t">>), group.clock[2])]

\* how createMultipartUploadWithThumbnail can end for a group: it returns,
\* or one of its steps throws (TypeError when the element has no main)
GroupOutcomes(group) ==
  IF group.main = NoFile THEN {"typeError"}
  ELSE {"ok", "createMain"} \cup
       (IF calculatePartCount(group.main.fileSize) > 0
          THEN {"presignMain"} ELSE {}) \cup
       (IF group.thumbnail = NoFile THEN {}
        ELSE {"createThumbnail"} \cup
             (IF calculatePartCount(group.thumbnail.fileSize) > 0
                THEN {"presignThumbnail"} ELSE {}))

\* the CreateMultipartUpload calls of a group that ends with outcome o
GroupCalls(group, userId, i, o) ==
  LET config == createMultipartUploadWithThumbnail(group, userId, i)
      main == Call("CreateMultipartUpload", config.main.s3Key, <<>>,
                   o # "createMain")
      thumbnail == Call("CreateMultipartUpload", config.thumbnail.s3Key, <<>>,
                        o # "createThumbnail")
  IN  IF o = "typeError" THEN <<>>
      ELSE IF o \in {"createMain", "presignMain"} \/ group.thumbnail = NoFile
        THEN <<main>>
      ELSE <<main, thumbnail>>

RECURSIVE AllGroupCalls(_, _, _, _)
AllGroupCalls(files, userId, outcome, i) ==
  IF i > Len(files) THEN <<>>
  ELSE GroupCalls(files[i], userId, i, outcome[i]) \o
       AllGroupCalls(files, userId, outcome, i + 1)

M_initiateFailed == <<"F","a","i","l","e","d"," ","t","o"," ","i","n","i","t","i","a","t","e"," ","S","3"," ","m","u","l","t","i","p","a","r","t"," ","u","p","l","o","a","d","s">>

\* createMultipartUploads and the answer of the handler: Promise.all over
\* the groups, each ending as outcome says
Initiate(files, userId, outcome, at) ==
  LET made == AllGroupCalls(files, userId, outcome, 1)
      uploads == [i \in 1..Len(files) |->
                    createMultipartUploadWithThumbnail(files[i], userId, i)]
      fulfilled == \A i \in 1..Len(files) : outcome[i] = "ok"
  IN  /\ calls' = made
      /\ sessions' = sessions \cup
           {Session(uploads[i].main.s3Key, uploads[i].main.uploadId) :
              i \in {j \in 1..Len(files) :
                       outcome[j] \notin {"typeError", "createMain"}}} \cup
           {Session(uploads[i].thumbnail.s3Key, uploads[i].thumbnail.uploadId) :
              i \in {j \in 1..Len(files) :
                       /\ outcome[j] \in {"ok", "presignThumbnail"}
                       /\ files[j].thumbnail # NoFile}}
      /\ req' = [op |-> "upload", pc |-> IF fulfilled THEN "done" ELSE "failed",
                 at |-> at, n |-> 1, userId |-> userId, files |-> files,
                 outcome |-> outcome]
      /\ resp' = IF fulfilled
                   THEN [statusCode |-> 200, errorCode |-> "",
                         data |-> [uploads |-> uploads, totalFiles |-> Len(uploads)]]
                   ELSE HandleError(S3ServiceError(M_initiateFailed))

OutcomesOf(files) ==
  {o \in [1..Len(files) -> {"ok", "createMain", "presignMain", "createThumbnail",
                            "presignThumbnail", "typeError"}] :
     \A i \in 1..Len(files) : o[i] \in GroupOutcomes(files[i])}

\* s3Service.createMultipartUploads(files, userId)
CreateMultipartUploads ==
  /\ req = Idle
  /\ \E outcome \in OutcomesOf(arg.files) :
       Initiate(arg.files, arg.userId, outcome, "service")
  /\ UNCHANGED <<s3Config, store, arg, ret>>

\* an element of body.files written as a plain MediaFile
AsMediaFile(group) ==
  [group EXCEPT !.filename = group.main.filename,
                !.fileType = group.main.fileType,
                !.fileSize = group.main.fileSize,
                !.main = NoFile, !.thumbnail = NoFile]

\* upload handler: validateUserId, validateFiles, createMultipartUploads;
\* the client writes each element of files as {main, thumbnail} or as a
\* plain MediaFile
UploadHandler ==
  /\ req = Idle
  /\ \E shape \in {"group", "file"} :
       LET files == IF shape = "group" THEN arg.files
                    ELSE [i \in 1..Len(arg.files) |-> AsMediaFile(arg.files[i])]
           rejected == [op |-> "upload", pc |-> "rejected", at |-> "handler",
                        n |-> 1, userId |-> arg.userId, files |-> files,
                        outcome |-> <<>>]
       IN  IF ~validateUserId(arg.userId)
             THEN /\ req' = rejected
                  /\ resp' = HandleError(ValidationErrorWith("INVALID_REQUEST",
                                                             <<>>))
                  /\ UNCHANGED <<calls, sessions>>
           ELSE IF validateFiles(files) # NoError
             THEN /\ req' = rejected
                  /\ resp' = HandleError(validateFiles(files))
                  /\ UNCHANGED <<calls, sessions>>
           ELSE \E outcome \in OutcomesOf(files) :
                  Initiate(files, arg.userId, outcome, "handler")
  /\ UNCHANGED <<s3Config, store, arg, ret>>

T_mp4 == <<"v","i","d","e","o","/","m","p","4">>

F_myClip == <<"M","y"," ","C","l","i","p",".","M","P","4">>

\* a filename with a subdirectory, which validateFilename allows
F_dirClip == <<"m","y","/","c","l","i","p",".","m","p","4">>

\* a filename with several dots, which validateFilename allows
F_dots == <<"f","i","l","e",".",".",".","m","p","3">>

F_so == <<"s","o",".","m","p","3">>

\* filename and MIME type of the primaries a client announces
MainDescriptors ==
  {<<F_ab, T_jpeg>>, <<F_myClip, T_mp4>>, <<F_so, T_mpeg>>, <<F_dirClip, T_mp4>>,
   <<F_dots, T_mpeg>>, <<<<"a","<","b",".","j","p","g">>, T_jpeg>>, <<F_ab, <<"t","e","x","t","/","p","l","a","i","n">>>>}

\* values of S3_PART_SIZE that validateConfig accepts
PartSizes == {5 * MiB, 10 * MiB}

FileSizes ==
  {0, 1, 5 * MiB, 5 * MiB + 1, 15 * MiB,
   validationConfig.maxFileSize, validationConfig.maxFileSize + 1}

MainFiles ==
  {[filename |-> d[1], fileType |-> d[2], fileSize |-> s] :
     d \in MainDescriptors, s \in FileSizes}

\* no thumbnail, an image, and an audio file offered as thumbnail
Thumbnails ==
  {NoFile,
   [filename |-> <<"t","h",".","j","p","g">>, fileType |-> T_jpeg, fileSize |-> 1],
   [filename |-> <<"t","h",".","m","p","3">>, fileType |-> T_mpeg, fileSize |-> 1]}

\* the dates the clock gives to the two key derivations of a group: the same
\* day, or the days before and after a UTC midnight
Clocks ==
  {<<[year |-> 2025, month |-> 1, day |-> 5], [year |-> 2025, month |-> 1, day |-> 5]>>,
   <<[year |-> 2025, month |-> 12, day |-> 31], [year |-> 2026, month |-> 1, day |-> 1]>>}

\* an element of body.files written as {main, thumbnail}
Group(main, thumbnail, clock) ==
  [filename |-> NoFile.filename, fileType |-> NoFile.fileType,
   fileSize |-> NoFile.fileSize, main |-> main, thumbnail |-> thumbnail,
   clock |-> clock]

Groups == {Group(m, t, c) : m \in MainFiles, t \in Thumbnails, c \in Clocks}

\* the groups that may follow the first one in a request
SecondGroups ==
  {Group([filename |-> F_so, fileType |-> T_mpeg, fileSize |-> 1], NoFile,
         <<[year |-> 2025, month |-> 1, day |-> 5],
           [year |-> 2025, month |-> 1, day |-> 5]>>)}

UploadRequests ==
  {[userId |-> U1, files |-> <<g>>] : g \in Groups} \cup
  {[userId |-> U1, files |-> <<g, h>>] : g \in Groups, h \in SecondGroups}

InitUpload ==
  /\ s3Config \in {[keyPrefix |-> S_uploads, partSize |-> p] : p \in PartSizes}
  /\ store = BaseStore
  /\ sessions = {}
  /\ req = Idle
  /\ calls = <<>>
  /\ resp = NoResp
  /\ arg \in UploadRequests
  /\ ret = <<>>

NextUpload ==
  \/ UploadHandler
  \/ CreateMultipartUploads

SpecUpload == InitUpload /\ [][NextUpload]_vars

InitiateAnswered == req.op = "upload" /\ req.pc = "done"

\* the files of the groups initiated paired with the configurations returned
\* for them: primaries, and thumbnails where the group has one
Initiated ==
  {[file |-> req.files[i].main, config |-> resp.data.uploads[i].main] :
     i \in 1..Len(req.files)} \cup
  {[file |-> req.files[i].thumbnail, config |-> resp.data.uploads[i].thumbnail] :
     i \in {j \in 1..Len(req.files) : req.files[j].thumbnail # NoFile}}

\* C22: for every file of size s initiated with part size p, the parts
\* returned are the part numbers 1..ceil(s/p), each once, in ascending
\* order, each with one presigned upload URL
C22_PartsCoverTheFile ==
  InitiateAnswered =>
    \A x \in Initiated :
      LET n == Len(x.config.parts)
      IN  /\ n * s3Config.partSize >= x.file.fileSize
          /\ n > 0 => (n - 1) * s3Config.partSize < x.file.fileSize
          /\ \A j \in 1..n :
               /\ x.config.parts[j].partNumber = j
               /\ x.config.parts[j].url = <<x.config.uploadId, j>>

\* a file of 15 MiB initiated with parts of 10 MiB was given the parts 1, 2
C22_Witness ==
  /\ InitiateAnswered
  /\ s3Config.partSize = 10 * MiB
  /\ \E x \in Initiated :
       /\ x.file.fileSize = 15 * MiB
       /\ Len(x.config.parts) = 2
       /\ x.config.parts[1].partNumber = 1
       /\ x.config.parts[2].partNumber = 2


\* the completion request a client builds from a configuration returned by
\* initiation: the issued part numbers in order, each with a valid tag
CompletionOf(config) ==
  [fileId |-> config.fileId, s3Key |-> config.s3Key,
   uploadId |-> config.uploadId,
   parts |-> [j \in 1..Len(config.parts) |->
                [partNumber |-> config.parts[j].partNumber, etag |-> E32]]]

\* the request accepted by validateFilesWithThumbnails
UploadValidated == validateFilesWithThumbnails(req.files) = NoError

\* C23: for every file accepted by upload validation, the fileId, storageKey
\* and sessionId returned by initiation, submitted with the issued part
\* numbers in order and valid tags, pass completion validation
C23_InitiatedUploadCompletes ==
  InitiateAnswered /\ UploadValidated =>
    \A x \in Initiated :
      validateCompleteUploadRequest(CompletionOf(x.config)).isValid


\* C24: for every group initiated with a thumbnail, the thumbnail's key has
\* the user, media category, date and groupId of the primary's key and
\* differs only by the thumbnail/ segment and the filename; for every
\* accepted primary MIME type, and when the clock passes UTC midnight between
\* the two key derivations
C24_ThumbnailBesidePrimary ==
  InitiateAnswered /\ UploadValidated =>
    \A i \in 1..Len(req.files) :
      req.files[i].thumbnail # NoFile =>
        LET main == Split(resp.data.uploads[i].main.s3Key, "/")
            thumbnail == Split(resp.data.uploads[i].thumbnail.s3Key, "/")
        IN  /\ Len(thumbnail) >= 9
            /\ SubSeq(thumbnail, 1, 7) = SubSeq(main, 1, 7)
            /\ thumbnail[8] = S_thumbnail


\* the groups of the request whose sessions were opened and presigned
GroupsSucceeded == {i \in 1..Len(req.files) : req.outcome[i] = "ok"}

\* C25: in a multi-file initiate, a store failure while opening the session
\* or presigning for one group does not abort the batch: the caller receives
\* the upload configurations of the groups that succeeded
C25_InitiateIsolatesFailures ==
  (req.op = "upload" /\ req.pc \in {"done", "failed"} /\ UploadValidated) =>
    /\ GroupsSucceeded # {} => resp.statusCode = 200
    /\ resp.statusCode = 200 =>
         \A i \in GroupsSucceeded :
           \E k \in 1..Len(resp.data.uploads) :
             resp.data.uploads[k] =
               createMultipartUploadWithThumbnail(req.files[i], req.userId, i)


\* the files that the request announces, primaries and thumbnails, whether
\* written as groups or as plain files
Announced ==
  UNION {{req.files[i], req.files[i].main, req.files[i].thumbnail} \ {NoFile} :
           i \in 1..Len(req.files)}

\* C26: a request with a file whose fileSize exceeds the configured maximum
\* is rejected by upload validation with error kind FILE_TOO_LARGE, and no
\* store call is made for it
C26_OversizedRejected ==
  (req.op = "upload" /\ req.at = "handler" /\
   \E f \in Announced : f.fileSize > validationConfig.maxFileSize)
    => /\ req.pc = "rejected"
       /\ resp.errorCode = "FILE_TOO_LARGE"
       /\ calls = <<>>


\* C30: every storage key derived at upload initiation from a userId and a
\* file descriptor accepted by upload validation satisfies validateFileKey,
\* so that the object can later be named in a delete or rename request
C30_DerivedKeysAreValid ==
  InitiateAnswered /\ UploadValidated =>
    \A x \in Initiated : validateFileKey(x.config.s3Key)


\* ------------------------------------------------------------------------
\* Claims on the key a rename writes to
\* ------------------------------------------------------------------------

\* the path segments of a key
SegmentsOf(key) == Split(key, "/")

\* C31: for every accepted rename, newKey has as many path segments as
\* fileKey, equals fileKey in every segment but the last, is a thumbnail
\* path only if fileKey was one, and passes validateFileKey
C31_RenamedKeyKeepsPath ==
  RenameAccepted =>
    /\ Len(SegmentsOf(req.newKey)) = Len(SegmentsOf(req.oldKey))
    /\ \A i \in 1..(Len(SegmentsOf(req.oldKey)) - 1) :
         SegmentsOf(req.newKey)[i] = SegmentsOf(req.oldKey)[i]
    /\ (isThumbnailPath(req.newKey) => isThumbnailPath(req.oldKey))
    /\ validateFileKey(req.newKey)


\* the rename ran to its end: it returned its data or threw
RenameReturned == req.op = "rename" /\ req.pc \in {"done", "failed"}

\* every failed call of the request is a copy whose source held no object
\* when the request started: the store refused nothing it could have served
NoStoreFault ==
  \A i \in 1..Len(calls) :
    calls[i].ok \/ (calls[i].call = "CopyObject" /\ ~Exists(req.store0, calls[i].src))

\* a visual primary that exists, without thumbnail object, and a free newKey
RenameOfBarePrimary ==
  /\ RenameAccepted
  /\ requiresThumbnail(req.mediaType)
  /\ ~isThumbnailPath(req.oldKey)
  /\ Exists(req.store0, req.oldKey)
  /\ ~Exists(req.store0, getThumbnailKey(req.oldKey))
  /\ ~Exists(req.store0, req.newKey)

\* C32: a rename of an existing visual primary whose group has no thumbnail
\* object, to a valid filename whose key is free, succeeds when the store
\* serves every call: the primary is at newKey, nothing is at the old key and
\* thumbnailUrl is null
C32_BarePrimaryRenames ==
  (RenameOfBarePrimary /\ RenameReturned /\ NoStoreFault) =>
    /\ req.pc = "done"
    /\ Exists(store, req.newKey)
    /\ store[req.newKey].content = req.store0[req.oldKey].content
    /\ ~Exists(store, req.oldKey)
    /\ resp.thumbnailUrl = ""


\* the rename in flight threw out of renameMediaFile
RenameFailed == req.op = "rename" /\ req.pc = "failed"

\* C33: whenever renameMediaFile returns an error, the store holds the same
\* objects as before the call: copies made at newKey or at the new thumbnail
\* key are removed again, the old primary and old thumbnail are still there
C33_FailedRenameRestoresStore ==
  RenameFailed =>
    /\ DOMAIN store = DOMAIN req.store0
    /\ \A k \in DOMAIN req.store0 : store[k] = req.store0[k]


\* ------------------------------------------------------------------------
\* Claims on the sessions an initiation leaves behind
\* ------------------------------------------------------------------------

\* createMultipartUploads threw
InitiateFailed == req.op = "upload" /\ req.pc = "failed" /\ req.at = "service"

\* C34: whenever createMultipartUploads returns an error, no multipart
\* session opened during the call is still open (sessions of groups that
\* succeeded, of a primary whose thumbnail failed, of a failed presigning)
C34_FailedInitiateLeavesNoSession ==
  InitiateFailed => sessions = {}


\* ------------------------------------------------------------------------
\* Claims on the metadata a rename writes
\* ------------------------------------------------------------------------

\* the stored metadata and content type of the renamed object equal those of
\* the old object, but for originalFilename, which is the new filename
MetadataCarriedOver ==
  LET old == req.store0[req.oldKey]
      new == store[req.newKey]
  IN  /\ new.metadata.userId = old.metadata.userId
      /\ new.metadata.fileId = old.metadata.fileId
      /\ new.metadata.uploadedAt = old.metadata.uploadedAt
      /\ new.contentType = old.contentType
      /\ new.metadata.originalFilename = req.newFilename

\* C35: after every successful rename the object at newKey carries the
\* userId, fileId, uploadedAt and content type of the old object and the new
\* filename as originalFilename, also when the metadata read of the old
\* object failed
C35_RenameKeepsMetadata ==
  (RenameSucceeded /\ Exists(store, req.newKey)) => MetadataCarriedOver


\* ------------------------------------------------------------------------
\* Specification of repeated completion: S3Service.completeMultipartUpload
\* called several times, one call after the other
\* ------------------------------------------------------------------------

\* number of completion calls made one after the other
MaxCompletions == 2

\* an UploadId no session of the store has
UnknownUploadId == UploadIdOf(1, <<"m">>)

\* what a finished call leaves in the history
Finished(r, after, answer) ==
  [s3Key |-> r.s3Key, uploadId |-> r.uploadId, pc |-> r.pc,
   store0 |-> r.store0, store |-> after, resp |-> answer]

\* completeMultipartUpload(fileId, s3Key, uploadId, parts) up to its first
\* store call; ret keeps the calls that finished before
CompleteMultipartUpload ==
  /\ req.pc \in Terminal
  /\ req.n < MaxCompletions
  /\ \E s3Key \in {K_cd, K_u2}, uploadId \in {ValidUploadId, UnknownUploadId} :
       req' = [op |-> "complete", pc |-> "assemble", at |-> "service",
               n |-> req.n + 1, userId |-> extractUserIdFromKey(s3Key),
               fileId |-> ValidFileId, s3Key |-> s3Key, uploadId |-> uploadId,
               parts |-> OrderedRun(1), validated |-> TRUE, assemble |-> "",
               cause |-> <<>>, thrown |-> NotThrown, store0 |-> store]
  /\ ret' = IF req.op = "complete" THEN Append(ret, Finished(req, store, resp))
            ELSE ret
  /\ calls' = <<>>
  /\ resp' = NoResp
  /\ UNCHANGED <<s3Config, store, sessions, arg>>

InitRecomplete ==
  /\ s3Config = DefaultConfig
  /\ store = BaseStore
  /\ sessions = OpenSessions
  /\ req = Idle
  /\ calls = <<>>
  /\ resp = NoResp
  /\ arg = <<>>
  /\ ret = <<>>

NextRecomplete ==
  \/ CompleteMultipartUpload
  \/ CompleteAssemble
  \/ CompleteReadMetadata
  \/ CompleteAbort

SpecRecomplete == InitRecomplete /\ [][NextRecomplete]_vars

\* the completion calls so far, the one in flight or just finished last
Completions ==
  IF req.op = "complete" THEN Append(ret, Finished(req, store, resp)) ELSE ret

\* call j is a later call on the session that call i completed
Recompletes(i, j) ==
  /\ i < j
  /\ Completions[i].pc = "done"
  /\ Completions[j].s3Key = Completions[i].s3Key
  /\ Completions[j].uploadId = Completions[i].uploadId

TouchedBy(fileKey) ==
  {fileKey} \cup
  (IF requiresThumbnail(extractMediaTypeFromKey(fileKey))
     THEN {getThumbnailKey(fileKey)} ELSE {})

\* the batch delete in flight passed validation
DeleteAccepted == req.op = "delete" /\ req.pc # "rejected"

\* C37: the concurrent per-key sub-operations of one accepted batch delete
\* touch pairwise disjoint sets of store keys, so no key of the store is sent
\* two DeleteObject calls by one request
C37_SubOperationsDisjoint ==
  DeleteAccepted =>
    /\ \A i, j \in 1..Len(req.fileKeys) :
         i # j => TouchedBy(req.fileKeys[i]) \cap TouchedBy(req.fileKeys[j]) = {}
    /\ \A a, b \in CallsOf({"DeleteObject"}) :
         a # b => calls[a].key # calls[b].key


\* ------------------------------------------------------------------------
\* Specification of the part count under the configurations the process
\* accepts: validateConfig, validateFileSize, calculatePartCount
\* ------------------------------------------------------------------------

\* values the environment may give to S3_PART_SIZE, MAX_FILE_SIZE and
\* MIN_FILE_SIZE (bytes); the other settings keep their defaults
EnvPartSizes == {MiB, 5 * MiB, 10 * MiB}

EnvMaxFileSizes == {20 * MiB, 2047 * MiB}

EnvMinFileSizes == {0, 1, 2 * MiB, 30 * MiB}

AnnouncedSizes == {0, 1, MiB, 5 * MiB, 5 * MiB + 1, 20 * MiB, 2047 * MiB}

\* validateConfig: TRUE when it returns, FALSE when it throws; the settings
\* left at their defaults pass their checks
validateConfig(s3, validation) ==
  /\ ~(s3.partSize < 5 * MiB)
  /\ ~(validation.maxFileSize < validation.minFileSize)

\* validateFileSize with the limits of the configuration in force
validateFileSizeUnder(validation, fileSize) ==
  IF fileSize < 0 THEN {"fileSizeInteger"}
  ELSE ErrorIf(fileSize < validation.minFileSize, "fileSizeBelowMinimum") \cup
       ErrorIf(fileSize > validation.maxFileSize, "fileSizeExceedsMaximum")

InitPlan ==
  /\ s3Config \in {[keyPrefix |-> S_uploads, partSize |-> p] : p \in EnvPartSizes}
  /\ store = BaseStore
  /\ sessions = {}
  /\ req = Idle
  /\ calls = <<>>
  /\ resp = NoResp
  /\ arg \in {[validation |-> [maxFileSize |-> hi, minFileSize |-> lo],
               fileSize |-> n] :
                hi \in EnvMaxFileSizes, lo \in EnvMinFileSizes,
                n \in AnnouncedSizes}
  /\ ret = <<>>

\* the handler validates the configuration before it reads the request
ColdStart ==
  /\ req = Idle
  /\ req' = [op |-> "plan",
             pc |-> IF validateConfig(s3Config, arg.validation)
                      THEN "configured" ELSE "failed",
             at |-> "config", n |-> 1]
  /\ UNCHANGED <<s3Config, store, sessions, calls, resp, arg, ret>>

\* the size of the file is validated, then createSingleMultipartUpload
\* computes the number of parts
PlanParts ==
  /\ req.op = "plan"
  /\ req.pc = "configured"
  /\ IF validateFileSizeUnder(arg.validation, arg.fileSize) = {}
       THEN /\ req' = [req EXCEPT !.pc = "done", !.at = "parts"]
            /\ ret' = <<calculatePartCount(arg.fileSize)>>
       ELSE /\ req' = [req EXCEPT !.pc = "rejected", !.at = "size"]
            /\ ret' = ret
  /\ UNCHANGED <<s3Config, store, sessions, calls, resp, arg>>

NextPlan ==
  \/ ColdStart
  \/ PlanParts

SpecPlan == InitPlan /\ [][NextPlan]_vars

\* the part count was computed for an accepted file under an accepted
\* configuration
Planned == req.op = "plan" /\ req.pc = "done"

\* C38: for every configuration accepted by validateConfig and every file
\* accepted by upload validation, the number of parts computed is at least 1
\* and at most 10000
C38_PartCountInRange ==
  Planned => (1 <= ret[1] /\ ret[1] <= MaxPartNumber)


\* ------------------------------------------------------------------------
\* Specification of an upload from initiation to the listing:
\* createMultipartUploads, then the sessions are completed
\* ------------------------------------------------------------------------

PathMainDescriptors ==
  {<<F_ab, T_jpeg>>, <<F_thumbAb, T_jpeg>>, <<F_myClip, T_mp4>>,
   <<F_so, T_mpeg>>, <<F_dirClip, T_mp4>>}

PathMainFiles ==
  {[filename |-> d[1], fileType |-> d[2], fileSize |-> s] :
     d \in PathMainDescriptors, s \in {1, 5 * MiB + 1}}

PathThumbnails ==
  {NoFile,
   [filename |-> F_ab, fileType |-> T_jpeg, fileSize |-> 1],
   [filename |-> <<"t","h",".","j","p","g">>, fileType |-> T_jpeg, fileSize |-> 1]}

PathRequests ==
  {[userId |-> U1, files |-> <<Group(m, t, c)>>] :
     m \in PathMainFiles, t \in PathThumbnails, c \in Clocks}

InitPaths ==
  /\ s3Config \in {[keyPrefix |-> S_uploads, partSize |-> p] : p \in PartSizes}
  /\ store = BaseStore
  /\ sessions = {}
  /\ req = Idle
  /\ calls = <<>>
  /\ resp = NoResp
  /\ arg \in PathRequests
  /\ ret = <<>>

\* the object the store assembles when the session with this UploadId is
\* completed: content of that upload, metadata given at CreateMultipartUpload
Assembled(uploadId) ==
  LET x == CHOOSE y \in Initiated : y.config.uploadId = uploadId
  IN  Object(uploadId, x.file.fileType, req.userId, x.config.fileId,
             x.file.filename)

\* the client uploads the parts and every session returned is completed, in
\* either order; the session completed last on a key leaves its object there
CompleteInitiated ==
  /\ InitiateAnswered
  /\ req.at = "service"
  /\ \E last \in [{s.s3Key : s \in sessions} -> sessions] :
       /\ \A k \in DOMAIN last : last[k].s3Key = k
       /\ store' = [k \in (DOMAIN store) \cup (DOMAIN last) |->
                      IF k \in DOMAIN last THEN Assembled(last[k].uploadId)
                      ELSE store[k]]
  /\ sessions' = {}
  /\ req' = [req EXCEPT !.pc = "completed"]
  /\ UNCHANGED <<s3Config, calls, resp, arg, ret>>

NextPaths ==
  \/ CreateMultipartUploads
  \/ CompleteInitiated

SpecPaths == InitPaths /\ [][NextPaths]_vars

\* listMediaFiles of the user returns the key: it is under the prefix listed
\* and passes the filter on thumbnail paths
ListedFor(userId, key) ==
  /\ Exists(store, key)
  /\ StartsWith(key, ListPrefix(userId, <<>>))
  /\ ~isThumbnailPath(key)

\* the uploads of a request whose descriptors upload validation accepts were
\* initiated and completed
UploadCompleted ==
  /\ req.op = "upload"
  /\ req.pc = "completed"
  /\ validateFilesWithThumbnails(req.files) = NoError

\* C39: every primary initiated with an accepted descriptor and then
\* completed appears in its owner's list results: its key is not a thumbnail
\* path, differs from the key of the group's thumbnail, and holds the primary
C39_CompletedPrimaryIsListed ==
  UploadCompleted =>
    \A i \in 1..Len(req.files) :
      LET config == resp.data.uploads[i]
      IN  /\ ~isThumbnailPath(config.main.s3Key)
          /\ (config.thumbnail # NoConfig =>
                config.main.s3Key # config.thumbnail.s3Key)
          /\ ListedFor(req.userId, config.main.s3Key)
          /\ store[config.main.s3Key].content = config.main.uploadId


\* ------------------------------------------------------------------------
\* Claims on a rename to the current name
\* ------------------------------------------------------------------------

\* an accepted rename of an existing file whose newKey is its fileKey
RenameToSameKey ==
  /\ RenameAccepted
  /\ req.newKey = req.oldKey
  /\ Exists(req.store0, req.oldKey)

====
